---- MODULE Spec2Model ----
(***************************************************************************)
(* Retention centre of the clinic dashboard: the message-template resolver *)
(* (applyVariables) and the merge of backend templates with the defaults   *)
(* (mergeTemplates), src/src/pages/RetentionCenter.tsx.                    *)
(*                                                                         *)
(* A JavaScript string is modelled as a sequence of one-character strings, *)
(* so that the regular expression of applyVariables is matched character   *)
(* by character.                                                           *)
(***************************************************************************)
EXTENDS Integers, Sequences, FiniteSets, TLC

VARIABLES
    template,     \* first argument of applyVariables
    variables,    \* second argument: the own properties of the context object
    rendered,     \* applyVariables(template, variables)
    rerendered,   \* applyVariables(rendered, variables)
    pc,           \* "ready" -> "rendered" -> "rerendered"; "idle": no rendering
    incoming,     \* argument of mergeTemplates: the templates of the payload
    merged,       \* mergeTemplates(incoming)
    mergePc,      \* "ready" -> "merged"; "idle": no merge
    \* the RetentionCenter component
    pagePc,       \* "created" -> "mounted" -> "unmounted"; "idle": no page
    gets,         \* the three GET requests of loadData
    loadPc,       \* "idle" -> "pending" -> "done": where loadData stands
    loadWrites,   \* how many times loadData wrote its result to the state
    appointments,
    reactivationPatients,
    waitlist,
    templates,
    settings,
    clinicName,
    isLoading,
    isSavingTemplate,
    isSavingSettings,
    errorMessage,
    successMessage,
    activityLogs,
    selectedTemplateChannel,
    selectedTemplateType,
    selectedAppointmentId,
    selectedReactivationId,
    selectedWaitlistId,
    requests,     \* requests of the handlers that have not settled yet
    sentCount,    \* number of requests the handlers have issued
    clock,        \* Date.now() as last read
    actionsLeft,  \* operator actions the behaviour still allows
    \* the sign-in form and the protected route
    env,            \* import.meta.env: VITE_LOGIN_API_URL and VITE_API_URL
    localStorage,   \* the three auth keys in window.localStorage
    sessionStorage, \* the three auth keys in window.sessionStorage
    location,       \* the path the router shows
    signInPc,       \* "mounted" -> "unmounted": the SignInForm; "idle": none
    isChecked,
    isSubmitting,
    formError,
    formSuccess,
    formValues,
    call,           \* the handleSubmit that is running, with its locals
    posted,         \* endpoints the running handleSubmit has posted to
    navigateTimers, \* pending setTimeout(() => navigate("/"), 700)
    routePc,        \* "unmounted", "mounted", "redirected": ProtectedRoute
    isAuthenticated,
    focused,        \* the window has the focus
    storageEvent,   \* a storage event of another tab waits to be delivered
    submitsLeft,    \* submit events the behaviour still allows
    visitsLeft      \* visits of the protected route the behaviour allows

resolverVars == <<template, variables, rendered, rerendered, pc>>
mergeVars == <<incoming, merged, mergePc>>
loadVars == <<gets, loadPc, loadWrites>>
listVars == <<appointments, reactivationPatients, waitlist>>
formVars == <<templates, settings, clinicName>>
flagVars == <<isLoading, isSavingTemplate, isSavingSettings>>
noticeVars == <<errorMessage, successMessage>>
selectionVars ==
    <<selectedTemplateChannel, selectedTemplateType, selectedAppointmentId,
      selectedReactivationId, selectedWaitlistId>>
networkVars == <<requests, sentCount>>
pageVars ==
    <<pagePc, loadVars, listVars, formVars, flagVars, noticeVars,
      activityLogs, selectionVars, networkVars, clock, actionsLeft>>
storageVars == <<localStorage, sessionStorage>>
signInVars ==
    <<signInPc, isChecked, isSubmitting, formError, formSuccess, formValues>>
callVars == <<call, posted, navigateTimers>>
routeVars == <<routePc, isAuthenticated>>
windowVars == <<focused, storageEvent>>
authVars ==
    <<env, storageVars, location, signInVars, callVars, routeVars,
      windowVars, submitsLeft, visitsLeft>>
vars == <<resolverVars, mergeVars, pageVars, authVars>>

\* no page: the resolver and the merge are exercised on their own
PageIdle ==
    /\ pagePc = "idle"
    /\ gets = <<>> /\ loadPc = "idle" /\ loadWrites = 0
    /\ appointments = <<>> /\ reactivationPatients = <<>> /\ waitlist = <<>>
    /\ templates = <<>> /\ settings = <<>> /\ clinicName = <<>>
    /\ isLoading = FALSE /\ isSavingTemplate = FALSE
    /\ isSavingSettings = FALSE
    /\ errorMessage = <<>> /\ successMessage = <<>>
    /\ activityLogs = <<>>
    /\ selectedTemplateChannel = "whatsapp"
    /\ selectedTemplateType = "reminder"
    /\ selectedAppointmentId = "" /\ selectedReactivationId = ""
    /\ selectedWaitlistId = ""
    /\ requests = <<>> /\ sentCount = 0
    /\ clock = 0 /\ actionsLeft = 0

\* no sign-in form and no protected route
AuthIdle ==
    /\ env = <<>>
    /\ localStorage = <<>> /\ sessionStorage = <<>>
    /\ location = <<>>
    /\ signInPc = "idle"
    /\ isChecked = FALSE /\ isSubmitting = FALSE
    /\ formError = <<>> /\ formSuccess = <<>> /\ formValues = <<>>
    /\ call = <<>> /\ posted = <<>> /\ navigateTimers = 0
    /\ routePc = "unmounted" /\ isAuthenticated = FALSE
    /\ focused = TRUE /\ storageEvent = FALSE
    /\ submitsLeft = 0 /\ visitsLeft = 0

---------------------------------------------------------------------------
(* Bounds *)

\* number of pieces a template of the resolver specification is built from
MaxPieces == 3

\* number of distinct non-empty override strings a payload may hold
MaxOverrides == 1

---------------------------------------------------------------------------
(* Characters *)

LowerCase == {"a","b","c","d","e","f","g","h","i","j","k","l","m",
              "n","o","p","q","r","s","t","u","v","w","x","y","z"}
UpperCase == {"A","B","C","D","E","F","G","H","I","J","K","L","M",
              "N","O","P","Q","R","S","T","U","V","W","X","Y","Z"}
Digits == {"0","1","2","3","4","5","6","7","8","9"}

\* the characters [A-Za-z0-9_]
WordCharacters == LowerCase \cup UpperCase \cup Digits \cup {"_"}

\* /[\w-]/: the class \w widened by the hyphen
IsWordCharOrHyphen(c) == c \in WordCharacters \cup {"-"}

\* the class \w of a JavaScript regular expression without the u flag
IsWordChar(c) == c \in WordCharacters

RECURSIVE Flatten(_)
\* concatenation of a sequence of strings
Flatten(ss) == IF ss = <<>> THEN <<>> ELSE Head(ss) \o Flatten(Tail(ss))

---------------------------------------------------------------------------
(* JavaScript values met by the property read variables[key] *)

JsString(s) == [type |-> "string", str |-> s]
JsFunction(n) == [type |-> "function", name |-> n]
JsUndefined == [type |-> "undefined"]

NameConstructor == <<"c", "o", "n", "s", "t", "r", "u", "c", "t", "o", "r">>
NameToString == <<"t", "o", "S", "t", "r", "i", "n", "g">>
NameValueOf == <<"v", "a", "l", "u", "e", "O", "f">>
NameHasOwnProperty == <<"h", "a", "s", "O", "w", "n", "P", "r", "o", "p", "e", "r", "t", "y">>
NameObject == <<"O", "b", "j", "e", "c", "t">>

\* names that every object literal inherits from Object.prototype, with the
\* name of the native function each one holds
ObjectPrototype ==
    [k \in {NameConstructor, NameToString, NameValueOf, NameHasOwnProperty} |->
        IF k = NameConstructor THEN JsFunction(NameObject) ELSE JsFunction(k)]

\* variables[key]: an own property first, then the prototype chain
GetProperty(obj, key) ==
    IF key \in DOMAIN obj THEN JsString(obj[key])
    ELSE IF key \in DOMAIN ObjectPrototype THEN ObjectPrototype[key]
    ELSE JsUndefined

\* ToBoolean
Truthy(v) ==
    CASE v.type = "string" -> v.str # <<>>
      [] v.type = "function" -> TRUE
      [] OTHER -> FALSE

\* ToString, applied by String.prototype.replace to what the callback returns
JsToString(v) ==
    CASE v.type = "string" -> v.str
      [] v.type = "function" ->
            <<"f", "u", "n", "c", "t", "i", "o", "n", " ">> \o v.name \o <<"(", ")", " ", "{", " ", "[", "n", "a", "t", "i", "v", "e", " ", "c", "o", "d", "e", "]", " ", "}">>
      [] OTHER -> <<"u", "n", "d", "e", "f", "i", "n", "e", "d">>

\* (_, key) => variables[key] || `{${key}}`: a missing token stays as written
ReplacementKeepToken(obj, key) ==
    LET v == GetProperty(obj, key)
    IN  IF Truthy(v) THEN JsToString(v) ELSE <<"{">> \o key \o <<"}">>

\* (_, key) => key || "": the captured name instead of its value
ReplacementKeyItself(obj, key) == key

\* the callback (_, key) => variables[key] || ""
Replacement(obj, key) ==
    LET v == GetProperty(obj, key)
    IN  IF Truthy(v) THEN JsToString(v) ELSE <<>>

---------------------------------------------------------------------------
(* Templates: channels, types and the hardcoded defaults *)

ReminderChannel == {"whatsapp", "sms", "email"}
TemplateType == {"reminder", "reactivation", "waitlist_call"}

\* defaultTemplates.whatsapp.reminder
DefaultWhatsappReminder ==
    <<
        "O", "l", "á", ",", " ", "{", "p", "a", "t", "i", "e", "n", "t", "N",
        "a", "m", "e", "}", ".", " ", "L", "e", "m", "b", "r", "e", "t", "e",
        " ", "d", "a", " ", "s", "u", "a", " ", "c", "o", "n", "s", "u", "l",
        "t", "a", " ", "n", "a", " ", "{", "c", "l", "i", "n", "i", "c", "N",
        "a", "m", "e", "}", " ", "e", "m", " ", "{", "d", "a", "t", "e", "}",
        " ", "à", "s", " ", "{", "t", "i", "m", "e", "}", " ", "c", "o", "m",
        " ", "{", "p", "r", "o", "f", "e", "s", "s", "i", "o", "n", "a", "l",
        "}", " ", "p", "a", "r", "a", " ", "{", "p", "r", "o", "c", "e", "d",
        "u", "r", "e", "}", ".", " ", "R", "e", "s", "p", "o", "n", "d", "a",
        " ", "1", " ", "p", "a", "r", "a", " ", "c", "o", "n", "f", "i", "r",
        "m", "a", "r", "." >>

\* defaultTemplates.whatsapp.reactivation
DefaultWhatsappReactivation ==
    <<
        "O", "l", "á", ",", " ", "{", "p", "a", "t", "i", "e", "n", "t", "N",
        "a", "m", "e", "}", ".", " ", "S", "e", "n", "t", "i", "m", "o", "s",
        " ", "s", "u", "a", " ", "f", "a", "l", "t", "a", " ", "n", "a", " ",
        "{", "c", "l", "i", "n", "i", "c", "N", "a", "m", "e", "}", ".", " ",
        "S", "u", "a", " ", "ú", "l", "t", "i", "m", "a", " ", "c", "o", "n",
        "s", "u", "l", "t", "a", " ", "f", "o", "i", " ", "e", "m", " ", "{",
        "l", "a", "s", "t", "V", "i", "s", "i", "t", "}", ".", " ", "P", "o",
        "d", "e", "m", "o", "s", " ", "a", "g", "e", "n", "d", "a", "r", " ",
        "s", "u", "a", " ", "r", "e", "v", "i", "s", "ã", "o", "?" >>

\* defaultTemplates.whatsapp.waitlist_call
DefaultWhatsappWaitlistCall ==
    <<
        "O", "l", "á", ",", " ", "{", "p", "a", "t", "i", "e", "n", "t", "N",
        "a", "m", "e", "}", ".", " ", "A", "b", "r", "i", "u", " ", "u", "m",
        " ", "e", "n", "c", "a", "i", "x", "e", " ", "p", "a", "r", "a", " ",
        "{", "p", "r", "o", "c", "e", "d", "u", "r", "e", "}", " ", "n", "a",
        " ", "{", "c", "l", "i", "n", "i", "c", "N", "a", "m", "e", "}", ".",
        " ", "T", "e", "m", "o", "s", " ", "h", "o", "r", "á", "r", "i", "o",
        " ", "e", "m", " ", "b", "r", "e", "v", "e", ".", " ", "Q", "u", "e",
        "r", " ", "c", "o", "n", "f", "i", "r", "m", "a", "r", "?" >>

\* defaultTemplates.sms.reminder
DefaultSmsReminder ==
    <<
        "{", "p", "a", "t", "i", "e", "n", "t", "N", "a", "m", "e", "}", ",",
        " ", "l", "e", "m", "b", "r", "e", "t", "e", ":", " ", "c", "o", "n",
        "s", "u", "l", "t", "a", " ", "{", "d", "a", "t", "e", "}", " ", "{",
        "t", "i", "m", "e", "}", " ", "n", "a", " ", "{", "c", "l", "i", "n",
        "i", "c", "N", "a", "m", "e", "}", ".", " ", "R", "e", "s", "p", "o",
        "n", "d", "a", " ", "S", "I", "M", " ", "p", "a", "r", "a", " ", "c",
        "o", "n", "f", "i", "r", "m", "a", "r", "." >>

\* defaultTemplates.sms.reactivation
DefaultSmsReactivation ==
    <<
        "{", "p", "a", "t", "i", "e", "n", "t", "N", "a", "m", "e", "}", ",",
        " ", "e", "s", "t", "á", " ", "n", "a", " ", "h", "o", "r", "a", " ",
        "d", "a", " ", "r", "e", "v", "i", "s", "ã", "o", " ", "o", "d", "o",
        "n", "t", "o", "l", "ó", "g", "i", "c", "a", ".", " ", "Ú", "l", "t",
        "i", "m", "a", " ", "v", "i", "s", "i", "t", "a", ":", " ", "{", "l",
        "a", "s", "t", "V", "i", "s", "i", "t", "}", ".", " ", "F", "a", "l",
        "e", " ", "c", "o", "m", " ", "a", " ", "{", "c", "l", "i", "n", "i",
        "c", "N", "a", "m", "e", "}", "." >>

\* defaultTemplates.sms.waitlist_call
DefaultSmsWaitlistCall ==
    <<
        "{", "p", "a", "t", "i", "e", "n", "t", "N", "a", "m", "e", "}", ",",
        " ", "s", "u", "r", "g", "i", "u", " ", "e", "n", "c", "a", "i", "x",
        "e", " ", "p", "a", "r", "a", " ", "{", "p", "r", "o", "c", "e", "d",
        "u", "r", "e", "}", ".", " ", "D", "e", "s", "e", "j", "a", " ", "c",
        "o", "n", "f", "i", "r", "m", "a", "r", " ", "c", "o", "m", " ", "a",
        " ", "{", "c", "l", "i", "n", "i", "c", "N", "a", "m", "e", "}", "?" >>

\* defaultTemplates.email.reminder
DefaultEmailReminder ==
    <<
        "P", "r", "e", "z", "a", "d", "o", "(", "a", ")", " ", "{", "p", "a",
        "t", "i", "e", "n", "t", "N", "a", "m", "e", "}", ",", " ", "c", "o",
        "n", "f", "i", "r", "m", "a", "m", "o", "s", " ", "s", "e", "u", " ",
        "a", "t", "e", "n", "d", "i", "m", "e", "n", "t", "o", " ", "e", "m",
        " ", "{", "d", "a", "t", "e", "}", " ", "à", "s", " ", "{", "t", "i",
        "m", "e", "}", " ", "c", "o", "m", " ", "{", "p", "r", "o", "f", "e",
        "s", "s", "i", "o", "n", "a", "l", "}", ",", " ", "p", "r", "o", "c",
        "e", "d", "i", "m", "e", "n", "t", "o", ":", " ", "{", "p", "r", "o",
        "c", "e", "d", "u", "r", "e", "}", "." >>

\* defaultTemplates.email.reactivation
DefaultEmailReactivation ==
    <<
        "O", "l", "á", ",", " ", "{", "p", "a", "t", "i", "e", "n", "t", "N",
        "a", "m", "e", "}", ".", " ", "N", "o", "t", "a", "m", "o", "s", " ",
        "q", "u", "e", " ", "s", "u", "a", " ", "ú", "l", "t", "i", "m", "a",
        " ", "v", "i", "s", "i", "t", "a", " ", "f", "o", "i", " ", "e", "m",
        " ", "{", "l", "a", "s", "t", "V", "i", "s", "i", "t", "}", ".", " ",
        "R", "e", "c", "o", "m", "e", "n", "d", "a", "m", "o", "s", " ", "r",
        "e", "t", "o", "r", "n", "o", " ", "p", "r", "e", "v", "e", "n", "t",
        "i", "v", "o", " ", "n", "a", " ", "{", "c", "l", "i", "n", "i", "c",
        "N", "a", "m", "e", "}", "." >>

\* defaultTemplates.email.waitlist_call
DefaultEmailWaitlistCall ==
    <<
        "O", "l", "á", ",", " ", "{", "p", "a", "t", "i", "e", "n", "t", "N",
        "a", "m", "e", "}", ".", " ", "T", "e", "m", "o", "s", " ", "e", "n",
        "c", "a", "i", "x", "e", " ", "p", "a", "r", "a", " ", "{", "p", "r",
        "o", "c", "e", "d", "u", "r", "e", "}", ".", " ", "C", "a", "s", "o",
        " ", "t", "e", "n", "h", "a", " ", "i", "n", "t", "e", "r", "e", "s",
        "s", "e", ",", " ", "c", "o", "n", "f", "i", "r", "m", "e", " ", "s",
        "e", "u", " ", "h", "o", "r", "á", "r", "i", "o", " ", "c", "o", "m",
        " ", "a", " ", "{", "c", "l", "i", "n", "i", "c", "N", "a", "m", "e",
        "}", "." >>

defaultTemplates ==
    [whatsapp |->
        [reminder |-> DefaultWhatsappReminder,
         reactivation |-> DefaultWhatsappReactivation,
         waitlist_call |-> DefaultWhatsappWaitlistCall],
     sms |->
        [reminder |-> DefaultSmsReminder,
         reactivation |-> DefaultSmsReactivation,
         waitlist_call |-> DefaultSmsWaitlistCall],
     email |->
        [reminder |-> DefaultEmailReminder,
         reactivation |-> DefaultEmailReactivation,
         waitlist_call |-> DefaultEmailWaitlistCall]]

---------------------------------------------------------------------------
(* mergeTemplates *)

\* the argument of mergeTemplates: templatesPayload.templates, which is
\* undefined (present = FALSE) or an object that holds some of the channels,
\* each holding some of the types
NoTemplates == [present |-> FALSE, map |-> <<>>]
SomeTemplates(m) == [present |-> TRUE, map |-> m]

\* incoming.channel?.type
OptionalTemplate(payload, channel, type) ==
    IF channel \in DOMAIN payload.map /\ type \in DOMAIN payload.map[channel]
    THEN JsString(payload.map[channel][type])
    ELSE JsUndefined

\* value || fallback
OrElse(value, fallback) == IF Truthy(value) THEN value.str ELSE fallback

\* { ...defaultTemplates, ...incoming }: a channel of the payload replaces
\* the whole channel of the defaults
mergeTemplatesShallow(payload) ==
    IF ~payload.present THEN defaultTemplates
    ELSE [channel \in ReminderChannel |->
            IF channel \in DOMAIN payload.map
            THEN payload.map[channel]
            ELSE defaultTemplates[channel]]

\* the sms channel written by copying the whatsapp lines, the payload's
\* channel left as it was
mergeTemplatesCopySlip(payload) ==
    IF ~payload.present THEN defaultTemplates
    ELSE [channel \in ReminderChannel |->
            [type \in TemplateType |->
                OrElse(OptionalTemplate(payload,
                           IF channel = "sms" THEN "whatsapp" ELSE channel,
                           type),
                       defaultTemplates[channel][type])]]

\* value ?? fallback: only an absent value falls back
OrElseNullish(value, fallback) ==
    IF value.type = "undefined" THEN fallback ELSE value.str

\* incoming.channel?.type ?? default in the place of ||
mergeTemplatesNullish(payload) ==
    IF ~payload.present THEN defaultTemplates
    ELSE [channel \in ReminderChannel |->
            [type \in TemplateType |->
                OrElseNullish(OptionalTemplate(payload, channel, type),
                              defaultTemplates[channel][type])]]

mergeTemplates(payload) ==
    IF ~payload.present THEN defaultTemplates
    ELSE [channel \in ReminderChannel |->
            [type \in TemplateType |->
                OrElse(OptionalTemplate(payload, channel, type),
                       defaultTemplates[channel][type])]]

---------------------------------------------------------------------------
(* template.replace(/\{(\w+)\}/g, callback) *)

RECURSIVE WordRunEnd(_, _)
\* index of the last character of the longest run of \w that starts at i
\* (i - 1 when s[i] is not a word character): the greedy \w+
WordRunEnd(s, i) ==
    IF i <= Len(s) /\ IsWordChar(s[i]) THEN WordRunEnd(s, i + 1) ELSE i - 1

\* /\{(\w*)\}/: the name may be empty
MatchEndEmptyName(s, i) ==
    IF s[i] # "{" THEN 0
    ELSE LET e == WordRunEnd(s, i + 1)
         IN  IF e + 1 <= Len(s) /\ s[e + 1] = "}" THEN e + 1 ELSE 0

\* index of the closing brace of the match of /\{(\w+)\}/ that starts at i,
\* or 0 when the expression does not match at i
MatchEnd(s, i) ==
    IF s[i] # "{" THEN 0
    ELSE LET e == WordRunEnd(s, i + 1)
         IN  IF e >= i + 1 /\ e + 1 <= Len(s) /\ s[e + 1] = "}"
             THEN e + 1 ELSE 0

\* index of the first open brace of s at or behind i, Len(s) + 1 when there
\* is none: the expression can match nowhere else
NextOpenBrace(s, i) ==
    IF \E j \in i..Len(s) : s[j] = "{"
    THEN CHOOSE j \in i..Len(s) :
            s[j] = "{" /\ \A k \in i..(j - 1) : s[k] # "{"
    ELSE Len(s) + 1

RECURSIVE ReplaceFrom(_, _, _)
\* the g flag: after a match the scan goes on behind it, in the original
\* string; what the callback returned is not scanned
ReplaceFrom(s, obj, i) ==
    IF i > Len(s) THEN <<>>
    ELSE LET b == NextOpenBrace(s, i)
             e == MatchEnd(s, i)
         IN  IF b > i
             THEN SubSeq(s, i, b - 1) \o ReplaceFrom(s, obj, b)
             ELSE IF e = 0
             THEN <<s[i]>> \o ReplaceFrom(s, obj, i + 1)
             ELSE Replacement(obj, SubSeq(s, i + 1, e - 1))
                     \o ReplaceFrom(s, obj, e + 1)

RECURSIVE ReplaceFirstFrom(_, _, _)
\* without the g flag: only the first match is replaced
ReplaceFirstFrom(s, obj, i) ==
    IF i > Len(s) THEN <<>>
    ELSE LET b == NextOpenBrace(s, i)
             e == MatchEnd(s, i)
         IN  IF b > i
             THEN SubSeq(s, i, b - 1) \o ReplaceFirstFrom(s, obj, b)
             ELSE IF e = 0
             THEN <<s[i]>> \o ReplaceFirstFrom(s, obj, i + 1)
             ELSE Replacement(obj, SubSeq(s, i + 1, e - 1))
                     \o SubSeq(s, e + 1, Len(s))

applyVariablesFirstOnly(tpl, obj) == ReplaceFirstFrom(tpl, obj, 1)

RECURSIVE ReplaceSkipFrom(_, _, _)
\* the scan resumes one character too far behind a match
ReplaceSkipFrom(s, obj, i) ==
    IF i > Len(s) THEN <<>>
    ELSE LET b == NextOpenBrace(s, i)
             e == MatchEnd(s, i)
         IN  IF b > i
             THEN SubSeq(s, i, b - 1) \o ReplaceSkipFrom(s, obj, b)
             ELSE IF e = 0
             THEN <<s[i]>> \o ReplaceSkipFrom(s, obj, i + 1)
             ELSE Replacement(obj, SubSeq(s, i + 1, e - 1))
                     \o SubSeq(s, e + 1, IF e + 1 <= Len(s) THEN e + 1 ELSE e)
                     \o ReplaceSkipFrom(s, obj, e + 2)

applyVariablesSkipOne(tpl, obj) == ReplaceSkipFrom(tpl, obj, 1)

\* the result of the replacement is scanned once more
applyVariablesRescan(tpl, obj) ==
    ReplaceFrom(ReplaceFrom(tpl, obj, 1), obj, 1)

applyVariables(tpl, obj) == ReplaceFrom(tpl, obj, 1)

---------------------------------------------------------------------------
(* Inputs of the resolver specification *)

NameX == <<"x">>
NameY == <<"y">>

Token(name) == <<"{">> \o name \o <<"}">>

\* the pieces templates are built from: lone braces, a word character, a
\* character outside \w, the tokens {x} and {y}, a token whose name
\* Object.prototype defines, and a brace pair around a hyphenated name
Pieces == {<<"{">>, <<"}">>, NameX, <<"-">>,
           Token(NameX), Token(NameY), Token(NameConstructor),
           Token(<<"x", "-", "y">>)}

Templates ==
    {Flatten(ps) : ps \in UNION {[1..n -> Pieces] : n \in 0..MaxPieces}}

\* context values: empty, plain, a lone brace, a whole placeholder
Values == {<<>>, <<"V">>, <<"{">>, <<"{", "y", "}">>}

Contexts == UNION {[ks -> Values] : ks \in SUBSET {NameX, NameY}}

---------------------------------------------------------------------------
(* The resolver specification: one template is rendered, as previewMessage *)
(* and the send handlers do, and the result is rendered once more          *)

Init ==
    /\ template \in Templates
    /\ variables \in Contexts
    /\ rendered = <<>>
    /\ rerendered = <<>>
    /\ pc = "ready"
    /\ incoming = NoTemplates
    /\ merged = defaultTemplates
    /\ mergePc = "idle"
    /\ PageIdle
    /\ AuthIdle

Render ==
    /\ pc = "ready"
    /\ rendered' = applyVariables(template, variables)
    /\ pc' = "rendered"
    /\ UNCHANGED <<template, variables, rerendered, mergeVars, pageVars, authVars>>

RenderAgain ==
    /\ pc = "rendered"
    /\ rerendered' = applyVariables(rendered, variables)
    /\ pc' = "rerendered"
    /\ UNCHANGED <<template, variables, rendered, mergeVars, pageVars, authVars>>

Next == Render \/ RenderAgain

Spec == Init /\ [][Next]_vars

---------------------------------------------------------------------------
(* The merge specification: one payload is merged with the defaults *)

\* override strings of a payload; the empty string is one of them
OverrideTexts ==
    <<<<"O", "i", " ", "{", "p", "a", "t", "i", "e", "n", "t", "N", "a", "m", "e", "}", "!">>,
      <<"{", "c", "l", "i", "n", "i", "c", "N", "a", "m", "e", "}", ":", " ", "{", "d", "a", "t", "e", "}">>,
      <<"R", "e", "t", "o", "r", "n", "o">>>>

OverrideStrings == {<<>>} \cup {OverrideTexts[n] : n \in 1..MaxOverrides}

ChannelPayloads == UNION {[ts -> OverrideStrings] : ts \in SUBSET TemplateType}

Payloads ==
    {NoTemplates} \cup
    {SomeTemplates(m) :
        m \in UNION {[cs -> ChannelPayloads] : cs \in SUBSET ReminderChannel}}

MergeInit ==
    /\ incoming \in Payloads
    /\ merged = defaultTemplates
    /\ mergePc = "ready"
    /\ template = <<>>
    /\ variables = <<>>
    /\ rendered = <<>>
    /\ rerendered = <<>>
    /\ pc = "idle"
    /\ PageIdle
    /\ AuthIdle

Merge ==
    /\ mergePc = "ready"
    /\ merged' = mergeTemplates(incoming)
    /\ mergePc' = "merged"
    /\ UNCHANGED <<incoming, resolverVars, pageVars, authVars>>

MergeNext == Merge

MergeSpec == MergeInit /\ [][MergeNext]_vars

---------------------------------------------------------------------------
(* The RetentionCenter page: bounds and data *)

\* number of operator actions (clicks, edits, selections) in one behaviour
MaxActions == 1

\* largest reading of the millisecond clock
MaxClock == 1

\* string | null
Null == [isNull |-> TRUE, text |-> <<>>]
Text(s) == [isNull |-> FALSE, text |-> s]

\* the millisecond clock, read as 0..MaxClock, starts at this instant;
\* new Date(Date.now() + days * 24 * 60 * 60 * 1000).toISOString()
IsoAfterDays(ms, days) ==
    (IF days = 0 THEN <<"2", "0", "2", "4", "-", "0", "5", "-", "1", "0">> ELSE <<"2", "0", "2", "4", "-", "0", "5", "-", "1", "1">>)
        \o <<"T", "1", "2", ":", "0", "0", ":", "0", "0", ".", "0", "0">>
        \o <<IF ms = 0 THEN "0" ELSE IF ms = 1 THEN "1" ELSE "2">>
        \o <<"Z">>

sampleAppointments ==
    << [id |-> "a1",
        patientName |-> <<"C", "a", "r", "l", "a", " ", "M", "e", "n", "d", "e", "s">>,
        patientPhone |-> <<"(", "1", "1", ")", " ", "9", "8", "8", "8", "8", "-", "1", "1", "1", "1">>,
        datetime |-> <<"2", "0", "2", "4", "-", "0", "5", "-", "1", "0", "T", "1", "4", ":", "0", "0", ":", "0", "0", ".", "0", "0", "0", "Z">>,
        procedure |-> <<"L", "i", "m", "p", "e", "z", "a", " ", "e", " ", "p", "r", "o", "f", "i", "l", "a", "x", "i", "a">>,
        professional |-> <<"D", "r", "a", ".", " ", "J", "u", "l", "i", "a", "n", "a">>,
        status |-> "pending_confirmation",
        reminderChannel |-> "whatsapp"],
       [id |-> "a2",
        patientName |-> <<"G", "u", "i", "l", "h", "e", "r", "m", "e", " ", "R", "o", "c", "h", "a">>,
        patientPhone |-> <<"(", "1", "1", ")", " ", "9", "7", "7", "7", "7", "-", "2", "2", "2", "2">>,
        datetime |-> <<"2", "0", "2", "4", "-", "0", "5", "-", "1", "0", "T", "1", "7", ":", "0", "0", ":", "0", "0", ".", "0", "0", "0", "Z">>,
        procedure |-> <<"A", "v", "a", "l", "i", "a", "ç", "ã", "o", " ", "o", "r", "t", "o", "d", "ô", "n", "t", "i", "c", "a">>,
        professional |-> <<"D", "r", ".", " ", "M", "a", "r", "c", "e", "l", "o">>,
        status |-> "confirmed",
        reminderChannel |-> "sms"],
       [id |-> "a3",
        patientName |-> <<"F", "e", "r", "n", "a", "n", "d", "a", " ", "L", "i", "m", "a">>,
        patientPhone |-> <<"(", "1", "1", ")", " ", "9", "6", "6", "6", "6", "-", "3", "3", "3", "3">>,
        datetime |-> <<"2", "0", "2", "4", "-", "0", "5", "-", "1", "1", "T", "1", "4", ":", "0", "0", ":", "0", "0", ".", "0", "0", "0", "Z">>,
        procedure |-> <<"R", "e", "s", "t", "a", "u", "r", "a", "ç", "ã", "o">>,
        professional |-> <<"D", "r", "a", ".", " ", "J", "u", "l", "i", "a", "n", "a">>,
        status |-> "pending_confirmation",
        reminderChannel |-> "email"] >>

sampleReactivation ==
    << [id |-> "r1",
        patientName |-> <<"O", "t", "á", "v", "i", "o", " ", "S", "a", "n", "t", "o", "s">>,
        phone |-> <<"(", "1", "1", ")", " ", "9", "5", "5", "5", "5", "-", "4", "4", "4", "4">>,
        lastVisit |-> <<"2", "0", "2", "3", "-", "1", "0", "-", "1", "3", "T", "1", "2", ":", "0", "0", ":", "0", "0", ".", "0", "0", "0", "Z">>,
        suggestedReturnInDays |-> 180,
        priority |-> "high",
        notes |-> <<"Ú", "l", "t", "i", "m", "o", " ", "p", "r", "o", "c", "e", "d", "i", "m", "e", "n", "t", "o", " ", "d", "e", " ", "c", "a", "n", "a", "l", ".", " ", "S", "u", "g", "e", "s", "t", "ã", "o", " ", "d", "e", " ", "r", "e", "v", "i", "s", "ã", "o", ".">>],
       [id |-> "r2",
        patientName |-> <<"H", "e", "l", "e", "n", "a", " ", "C", "o", "s", "t", "a">>,
        phone |-> <<"(", "1", "1", ")", " ", "9", "4", "4", "4", "4", "-", "5", "5", "5", "5">>,
        lastVisit |-> <<"2", "0", "2", "4", "-", "0", "1", "-", "0", "1", "T", "1", "2", ":", "0", "0", ":", "0", "0", ".", "0", "0", "0", "Z">>,
        suggestedReturnInDays |-> 120,
        priority |-> "medium",
        notes |-> <<"P", "r", "o", "f", "i", "l", "a", "x", "i", "a", " ", "p", "e", "r", "i", "ó", "d", "i", "c", "a", ".">>] >>

sampleWaitlist ==
    << [id |-> "w1",
        patientName |-> <<"L", "u", "c", "a", "s", " ", "A", "n", "d", "r", "a", "d", "e">>,
        phone |-> <<"(", "1", "1", ")", " ", "9", "3", "3", "3", "3", "-", "6", "6", "6", "6">>,
        preferredPeriod |-> "afternoon",
        treatment |-> <<"E", "x", "t", "r", "a", "ç", "ã", "o", " ", "d", "e", " ", "s", "i", "s", "o">>,
        urgency |-> "high"],
       [id |-> "w2",
        patientName |-> <<"B", "e", "a", "t", "r", "i", "z", " ", "M", "o", "t", "a">>,
        phone |-> <<"(", "1", "1", ")", " ", "9", "2", "2", "2", "2", "-", "7", "7", "7", "7">>,
        preferredPeriod |-> "morning",
        treatment |-> <<"A", "j", "u", "s", "t", "e", " ", "o", "r", "t", "o", "d", "ô", "n", "t", "i", "c", "o">>,
        urgency |-> "normal"] >>

defaultSettings ==
    [reminderHoursBefore |-> 24,
     secondReminderEnabled |-> TRUE,
     secondReminderHoursBefore |-> 2,
     quietHoursStart |-> <<"2", "1", ":", "0", "0">>,
     quietHoursEnd |-> <<"0", "8", ":", "0", "0">>]

channelLabel ==
    [whatsapp |-> <<"W", "h", "a", "t", "s", "A", "p", "p">>, sms |-> <<"S", "M", "S">>, email |-> <<"E", "-", "m", "a", "i", "l">>]

---------------------------------------------------------------------------
(* What the backend may answer to the three GET requests of loadData *)

GetNames == {"dashboard", "templates", "settings"}

\* lists a backend holds
backendAppointments ==
    << [id |-> "b1",
        patientName |-> <<"R", "u", "i", " ", "A", "l", "v", "e", "s">>,
        patientPhone |-> <<"(", "1", "1", ")", " ", "9", "1", "1", "1", "1", "-", "0", "0", "0", "0">>,
        datetime |-> <<"2", "0", "2", "4", "-", "0", "5", "-", "1", "0", "T", "0", "9", ":", "3", "0", ":", "0", "0", ".", "0", "0", "0", "Z">>,
        procedure |-> <<"C", "l", "a", "r", "e", "a", "m", "e", "n", "t", "o">>,
        professional |-> <<"D", "r", ".", " ", "M", "a", "r", "c", "e", "l", "o">>,
        status |-> "pending_confirmation",
        reminderChannel |-> "sms"] >>

backendWaitlist ==
    << [id |-> "bw1",
        patientName |-> <<"N", "i", "n", "a", " ", "P", "r", "a", "d", "o">>,
        phone |-> <<"(", "1", "1", ")", " ", "9", "0", "0", "0", "0", "-", "1", "2", "3", "4">>,
        preferredPeriod |-> "any",
        treatment |-> <<"I", "m", "p", "l", "a", "n", "t", "e">>,
        urgency |-> "normal"] >>

\* DashboardPayload: every list is optional; here the empty object, and an
\* object with appointments, an empty reactivation list and a waitlist
EmptyObject == [k \in {} |-> <<>>]

DashboardPayloads ==
    {EmptyObject,
     [appointments |-> backendAppointments,
      reactivation |-> <<>>,
      waitlist |-> backendWaitlist]}

\* a reactivation text a clinic may keep in the backend
BackendReactivationText ==
    <<"V", "o", "l", "t", "e", ",", " ", "{", "p", "a", "t", "i", "e", "n", "t", "N", "a", "m", "e", "}", "!", " ", "{", "p", "r", "o", "f", "e", "s", "s", "i", "o", "n", "a", "l", "}", " ", "e", "s", "p", "e", "r", "a", " ", "p", "o", "r", " ", "v", "o", "c", "ê", ".">>

\* TemplatesPayload: no templates, or overrides of whatsapp.reminder and
\* whatsapp.reactivation
TemplatesPayloads ==
    {NoTemplates,
     SomeTemplates([whatsapp |-> [reminder |-> OverrideTexts[1],
                                  reactivation |-> BackendReactivationText]])}

\* Partial<AutomationSettings>
SettingsPayloads == {EmptyObject, [reminderHoursBefore |-> 48]}

\* payload.list?.length ? payload.list : sample
ListOrSample(payload, list, sample) ==
    IF list \in DOMAIN payload /\ Len(payload[list]) # 0
    THEN payload[list] ELSE sample

\* list[0]?.id || ""
FirstIdOrEmpty(list) == IF Len(list) >= 1 THEN list[1].id ELSE ""

\* { ...payload, ...prev }: the earlier object wins
SpreadUnder(prev, payload) ==
    [k \in DOMAIN prev \cup DOMAIN payload |->
        IF k \in DOMAIN prev THEN prev[k] ELSE payload[k]]

\* { ...prev, ...payload }
SpreadOver(prev, payload) ==
    [k \in DOMAIN prev \cup DOMAIN payload |->
        IF k \in DOMAIN payload THEN payload[k] ELSE prev[k]]

---------------------------------------------------------------------------
(* The page: construction, mount and the initial load *)

\* the state after the first render: the initial values of useState
PageInit ==
    /\ pagePc = "created"
    /\ gets = [g \in GetNames |-> "idle"]
    /\ loadPc = "idle"
    /\ loadWrites = 0
    /\ appointments = <<>>
    /\ reactivationPatients = <<>>
    /\ waitlist = <<>>
    /\ templates = defaultTemplates
    /\ settings = defaultSettings
    /\ clinicName = <<"C", "l", "í", "n", "i", "c", "a", " ", "S", "o", "r", "r", "i", "s", "o">>
    /\ isLoading = FALSE
    /\ isSavingTemplate = FALSE
    /\ isSavingSettings = FALSE
    /\ errorMessage = Null
    /\ successMessage = Null
    /\ activityLogs = <<>>
    /\ selectedTemplateChannel = "whatsapp"
    /\ selectedTemplateType = "reminder"
    /\ selectedAppointmentId = ""
    /\ selectedReactivationId = ""
    /\ selectedWaitlistId = ""
    /\ requests = <<>>
    /\ sentCount = 0
    /\ clock = 0
    /\ actionsLeft = MaxActions
    /\ template = <<>>
    /\ variables = <<>>
    /\ rendered = <<>>
    /\ rerendered = <<>>
    /\ pc = "idle"
    /\ incoming = NoTemplates
    /\ merged = defaultTemplates
    /\ mergePc = "idle"
    /\ AuthIdle

\* the effect of the mount: loadData up to its await
Mount ==
    /\ pagePc = "created"
    /\ pagePc' = "mounted"
    /\ isLoading' = TRUE
    /\ errorMessage' = Null
    /\ gets' = [g \in GetNames |-> "pending"]
    /\ loadPc' = "pending"
    /\ UNCHANGED <<loadWrites, listVars, formVars, isSavingTemplate,
                   isSavingSettings, successMessage, activityLogs,
                   selectionVars, networkVars, clock, actionsLeft,
                   resolverVars, mergeVars, authVars>>

\* the cleanup of the effect: cancelled = true
Unmount ==
    /\ pagePc = "mounted"
    /\ pagePc' = "unmounted"
    /\ UNCHANGED <<loadVars, listVars, formVars, flagVars, noticeVars,
                   activityLogs, selectionVars, networkVars, clock,
                   actionsLeft, resolverVars, mergeVars, authVars>>

\* the flag of the cleanup is never looked at
cancelledIgnored == FALSE

cancelled == pagePc = "unmounted"

\* one GET settles: the response is OK, or not OK, or the fetch rejects
GetSettles ==
    /\ loadPc = "pending"
    /\ \E g \in GetNames : \E outcome \in {"ok", "notok", "rejected"} :
        /\ gets[g] = "pending"
        /\ gets' = [gets EXCEPT ![g] = outcome]
    /\ UNCHANGED <<pagePc, loadPc, loadWrites, listVars, formVars, flagVars,
                   noticeVars, activityLogs, selectionVars, networkVars,
                   clock, actionsLeft, resolverVars, mergeVars, authVars>>

\* response.ok ? await response.json().catch(() => ({})) : {}
PayloadOf(status, payloads, empty) ==
    IF status = "ok" THEN payloads \cup {empty} ELSE {empty}

\* the payload is merged over the working set, so that edits stay
LoadedTemplatesOverEdits(prev, payload) ==
    [channel \in ReminderChannel |->
        [type \in TemplateType |->
            IF mergeTemplates(payload)[channel][type]
                    # defaultTemplates[channel][type]
            THEN mergeTemplates(payload)[channel][type]
            ELSE prev[channel][type]]]

\* setTemplates(mergeTemplates(templatesPayload.templates)): the value form
\* of the setter, which does not look at the earlier state
LoadedTemplates(prev, payload) == mergeTemplates(payload)

\* loadData behind await Promise.all, all three fetches fulfilled: the try
\* block and the finally block
LoadFulfilled ==
    /\ loadPc = "pending"
    /\ \A g \in GetNames : gets[g] \in {"ok", "notok"}
    /\ loadPc' = "done"
    /\ gets' = [g \in GetNames |-> "closed"]
    /\ IF cancelled
       THEN UNCHANGED <<loadWrites, listVars, formVars, flagVars, noticeVars,
                        selectionVars>>
       ELSE \E dashboardPayload \in
                    PayloadOf(gets["dashboard"], DashboardPayloads, EmptyObject) :
            \E templatesPayload \in
                    PayloadOf(gets["templates"], TemplatesPayloads, NoTemplates) :
            \E settingsPayload \in
                    PayloadOf(gets["settings"], SettingsPayloads, EmptyObject) :
              LET nextAppointments ==
                      ListOrSample(dashboardPayload, "appointments",
                                   sampleAppointments)
                  nextReactivation ==
                      ListOrSample(dashboardPayload, "reactivation",
                                   sampleReactivation)
                  nextWaitlist ==
                      ListOrSample(dashboardPayload, "waitlist", sampleWaitlist)
              IN  /\ appointments' = nextAppointments
                  /\ reactivationPatients' = nextReactivation
                  /\ waitlist' = nextWaitlist
                  /\ templates' = LoadedTemplates(templates, templatesPayload)
                  /\ settings' = SpreadOver(settings, settingsPayload)
                  /\ selectedAppointmentId' = FirstIdOrEmpty(nextAppointments)
                  /\ selectedReactivationId' = FirstIdOrEmpty(nextReactivation)
                  /\ selectedWaitlistId' = FirstIdOrEmpty(nextWaitlist)
                  /\ isLoading' = FALSE
                  /\ loadWrites' = loadWrites + 1
                  /\ UNCHANGED <<clinicName, isSavingTemplate,
                                 isSavingSettings, noticeVars,
                                 selectedTemplateChannel, selectedTemplateType>>
    /\ UNCHANGED <<pagePc, activityLogs, networkVars, clock, actionsLeft,
                   resolverVars, mergeVars, authVars>>

\* loadData behind await Promise.all, which rejects as soon as one fetch
\* has rejected: the catch block and the finally block
LoadRejected ==
    /\ loadPc = "pending"
    /\ \E g \in GetNames : gets[g] = "rejected"
    /\ loadPc' = "done"
    /\ gets' = [g \in GetNames |-> "closed"]
    /\ IF cancelled
       THEN UNCHANGED <<loadWrites, listVars, formVars, flagVars, noticeVars,
                        selectionVars>>
       ELSE /\ errorMessage' = Text(<<"N", "ã", "o", " ", "f", "o", "i", " ", "p", "o", "s", "s", "í", "v", "e", "l", " ", "c", "a", "r", "r", "e", "g", "a", "r", " ", "d", "o", " ", "b", "a", "c", "k", "e", "n", "d", ".", " ", "E", "x", "i", "b", "i", "n", "d", "o", " ", "d", "a", "d", "o", "s", " ", "d", "e", " ", "e", "x", "e", "m", "p", "l", "o", ".">>)
            /\ appointments' = sampleAppointments
            /\ reactivationPatients' = sampleReactivation
            /\ waitlist' = sampleWaitlist
            /\ templates' = defaultTemplates
            /\ selectedAppointmentId' = FirstIdOrEmpty(sampleAppointments)
            /\ selectedReactivationId' = FirstIdOrEmpty(sampleReactivation)
            /\ selectedWaitlistId' = FirstIdOrEmpty(sampleWaitlist)
            /\ isLoading' = FALSE
            /\ loadWrites' = loadWrites + 1
            /\ UNCHANGED <<settings, clinicName, isSavingTemplate,
                           isSavingSettings, successMessage,
                           selectedTemplateChannel, selectedTemplateType>>
    /\ UNCHANGED <<pagePc, activityLogs, networkVars, clock, actionsLeft,
                   resolverVars, mergeVars, authVars>>

---------------------------------------------------------------------------
(* Formatting and the substitution context *)

\* formatDate: toLocaleDateString("pt-BR", day, month, year), the ISO string
\* read in the time zone it is written in
formatDate(iso) ==
    SubSeq(iso, 9, 10) \o <<"/">> \o SubSeq(iso, 6, 7) \o <<"/">>
        \o SubSeq(iso, 1, 4)

\* toLocaleTimeString("pt-BR", hour, minute)
formatTime(iso) == SubSeq(iso, 12, 16)

\* new Date().toISOString()
NowIso == IsoAfterDays(clock, 0)

\* list.find((item) => item.id === id) || list[0]: a sequence of one item,
\* or the empty sequence for undefined
SelectedOrFirst(list, id) ==
    LET found == SelectSeq(list, LAMBDA item : item.id = id)
    IN  IF found # <<>> THEN <<found[1]>>
        ELSE IF list # <<>> THEN <<list[1]>>
        ELSE <<>>

\* a || b || c || d on strings: the first that is not empty
FirstNonEmpty(candidates) ==
    LET filled == SelectSeq(candidates, LAMBDA c : c # <<>>)
    IN  IF filled # <<>> THEN filled[1] ELSE <<>>

FieldOf(option, field) == IF option # <<>> THEN option[1][field] ELSE <<>>

KeyPatientName == <<"p", "a", "t", "i", "e", "n", "t", "N", "a", "m", "e">>
KeyDate == <<"d", "a", "t", "e">>
KeyTime == <<"t", "i", "m", "e">>
KeyProcedure == <<"p", "r", "o", "c", "e", "d", "u", "r", "e">>
KeyProfessional == <<"p", "r", "o", "f", "e", "s", "s", "i", "o", "n", "a", "l">>
KeyClinicName == <<"c", "l", "i", "n", "i", "c", "N", "a", "m", "e">>
KeyLastVisit == <<"l", "a", "s", "t", "V", "i", "s", "i", "t">>

templateVariables ==
    LET appointment == SelectedOrFirst(appointments, selectedAppointmentId)
        reactivation ==
            SelectedOrFirst(reactivationPatients, selectedReactivationId)
        wait == SelectedOrFirst(waitlist, selectedWaitlistId)
    IN  (KeyPatientName :>
            FirstNonEmpty(<<FieldOf(appointment, "patientName"),
                            FieldOf(reactivation, "patientName"),
                            FieldOf(wait, "patientName"),
                            <<"P", "a", "c", "i", "e", "n", "t", "e">>>>))
        @@ (KeyDate :>
            IF appointment # <<>> THEN formatDate(appointment[1].datetime)
            ELSE formatDate(NowIso))
        @@ (KeyTime :>
            IF appointment # <<>> THEN formatTime(appointment[1].datetime)
            ELSE <<"0", "9", ":", "0", "0">>)
        @@ (KeyProcedure :>
            FirstNonEmpty(<<FieldOf(appointment, "procedure"),
                            FieldOf(wait, "treatment"),
                            <<"A", "v", "a", "l", "i", "a", "ç", "ã", "o", " ", "c", "l", "í", "n", "i", "c", "a">>>>))
        @@ (KeyProfessional :>
            FirstNonEmpty(<<FieldOf(appointment, "professional"),
                            <<"E", "q", "u", "i", "p", "e", " ", "c", "l", "í", "n", "i", "c", "a">>>>))
        @@ (KeyClinicName :> clinicName)
        @@ (KeyLastVisit :>
            IF reactivation # <<>> THEN formatDate(reactivation[1].lastVisit)
            ELSE formatDate(NowIso))

previewMessage ==
    applyVariables(templates[selectedTemplateChannel][selectedTemplateType],
                   templateVariables)

---------------------------------------------------------------------------
(* The page: what the operator does to the forms *)

CanAct == pagePc = "mounted" /\ actionsLeft > 0

Acted == actionsLeft' = actionsLeft - 1

\* Date.now(): a reading of the clock, never earlier than the last one
Readings == clock..MaxClock

SelectTemplateType ==
    /\ CanAct /\ Acted
    /\ \E type \in TemplateType : selectedTemplateType' = type
    /\ UNCHANGED <<pagePc, loadVars, listVars, formVars, flagVars, noticeVars,
                   activityLogs, selectedTemplateChannel,
                   selectedAppointmentId, selectedReactivationId,
                   selectedWaitlistId, networkVars, clock,
                   resolverVars, mergeVars, authVars>>

SelectTemplateChannel ==
    /\ CanAct /\ Acted
    /\ \E channel \in ReminderChannel : selectedTemplateChannel' = channel
    /\ UNCHANGED <<pagePc, loadVars, listVars, formVars, flagVars, noticeVars,
                   activityLogs, selectedTemplateType,
                   selectedAppointmentId, selectedReactivationId,
                   selectedWaitlistId, networkVars, clock,
                   resolverVars, mergeVars, authVars>>

\* what the operator types into the template box: nothing, or a text
TypedTemplates == {<<>>, OverrideTexts[1]}

\* the channel's object is rebuilt without its other two types
WithTemplateNoSpread(prev, channel, type, value) ==
    [prev EXCEPT ![channel] = [t \in {type} |-> value]]

\* setTemplates((prev) => ({ ...prev, [channel]: { ...prev[channel],
\* [type]: value } }))
WithTemplate(prev, channel, type, value) ==
    [prev EXCEPT ![channel] = [prev[channel] EXCEPT ![type] = value]]

\* every edit is sent to the backend at once
EditTemplateAutosave ==
    /\ CanAct /\ Acted
    /\ \E value \in TypedTemplates :
        /\ templates' = WithTemplate(templates, selectedTemplateChannel,
                                     selectedTemplateType, value)
        /\ sentCount' = sentCount + 1
        /\ requests' =
              (sentCount + 1 :>
                    [handler |-> "saveTemplates", method |-> "PUT",
                     path |-> <<"templates">>,
                     body |-> [templates |-> templates'], about |-> <<>>,
                     status |-> "pending"])
              @@ requests
    /\ UNCHANGED <<pagePc, loadVars, listVars, settings, clinicName, flagVars,
                   noticeVars, activityLogs, selectionVars, clock,
                   resolverVars, mergeVars, authVars>>

\* onChange of the textarea
EditTemplate ==
    /\ CanAct /\ Acted
    /\ \E value \in TypedTemplates :
        templates' = WithTemplate(templates, selectedTemplateChannel,
                                  selectedTemplateType, value)
    /\ UNCHANGED <<pagePc, loadVars, listVars, settings, clinicName, flagVars,
                   noticeVars, activityLogs, selectionVars, networkVars,
                   clock, resolverVars, mergeVars, authVars>>

\* onChange of the clinic name
EditClinicName ==
    /\ CanAct /\ Acted
    /\ \E value \in {<<>>, <<"O", "d", "o", "n", "t", "o", " ", "B", "e", "m">>} : clinicName' = value
    /\ UNCHANGED <<pagePc, loadVars, listVars, templates, settings, flagVars,
                   noticeVars, activityLogs, selectionVars, networkVars,
                   clock, resolverVars, mergeVars, authVars>>

\* Number(event.target.value) || 1, the input read as a number (0: empty or
\* not a number)
NumberOrOne(n) == IF n = 0 THEN 1 ELSE n

\* onChange of the five inputs of the automation settings
EditSettings ==
    /\ CanAct /\ Acted
    /\ \/ \E n \in {0, 12} :
            settings' = [settings EXCEPT !.reminderHoursBefore = NumberOrOne(n)]
       \/ settings' = [settings EXCEPT !.secondReminderEnabled =
                                            ~settings.secondReminderEnabled]
       \/ /\ settings.secondReminderEnabled
          /\ \E n \in {0, 4} :
                settings' = [settings EXCEPT !.secondReminderHoursBefore =
                                                    NumberOrOne(n)]
       \/ settings' = [settings EXCEPT !.quietHoursStart = <<"2", "2", ":", "0", "0">>]
       \/ settings' = [settings EXCEPT !.quietHoursEnd = <<"0", "7", ":", "0", "0">>]
    /\ UNCHANGED <<pagePc, loadVars, listVars, templates, clinicName, flagVars,
                   noticeVars, activityLogs, selectionVars, networkVars,
                   clock, resolverVars, mergeVars, authVars>>

IdsOf(list) == {list[n].id : n \in 1..Len(list)}

\* onChange of the three preview selects
SelectPreview ==
    /\ CanAct /\ Acted
    /\ \/ /\ \E id \in {""} \cup IdsOf(appointments) :
                selectedAppointmentId' = id
          /\ UNCHANGED <<selectedReactivationId, selectedWaitlistId>>
       \/ /\ \E id \in {""} \cup IdsOf(reactivationPatients) :
                selectedReactivationId' = id
          /\ UNCHANGED <<selectedAppointmentId, selectedWaitlistId>>
       \/ /\ \E id \in {""} \cup IdsOf(waitlist) :
                selectedWaitlistId' = id
          /\ UNCHANGED <<selectedAppointmentId, selectedReactivationId>>
    /\ UNCHANGED <<pagePc, loadVars, listVars, formVars, flagVars, noticeVars,
                   activityLogs, selectedTemplateChannel,
                   selectedTemplateType, networkVars, clock,
                   resolverVars, mergeVars, authVars>>

---------------------------------------------------------------------------
(* The page: requests *)

\* fetch(url, { method, body }): the request joins the pending ones
Fetch(handler, method, path, body, about) ==
    /\ sentCount' = sentCount + 1
    /\ requests' =
          (sentCount + 1 :> [handler |-> handler, method |-> method,
                             path |-> path, body |-> body, about |-> about,
                             status |-> "pending"])
          @@ requests

Without(n) == [m \in DOMAIN requests \ {n} |-> requests[m]]

\* the log is never cut
PushedLogUncut(now, action, target, channel) ==
    <<[id |-> <<"log", now>>, action |-> action, target |-> target,
       channel |-> channel, createdAt |-> IsoAfterDays(now, 0)]>>
        \o activityLogs

\* pushLog: the new entry first, then the seven newest of the earlier ones;
\* the random part of the entry's id is left out
PushedLog(now, action, target, channel) ==
    <<[id |-> <<"log", now>>, action |-> action, target |-> target,
       channel |-> channel, createdAt |-> IsoAfterDays(now, 0)]>>
        \o SubSeq(activityLogs, 1, IF Len(activityLogs) < 7
                                   THEN Len(activityLogs) ELSE 7)

NoChannel == "none"

\* a body that carries the pairs of one channel only
TemplatesBodyOneChannel(set) ==
    [templates |-> [channel \in {"whatsapp"} |-> set[channel]]]

\* JSON.stringify({ templates })
TemplatesBody(set) == [templates |-> set]

\* saveTemplates up to its await
SaveTemplates ==
    /\ CanAct /\ Acted
    /\ ~isSavingTemplate
    /\ isSavingTemplate' = TRUE
    /\ errorMessage' = Null
    /\ Fetch("saveTemplates", "PUT", <<"templates">>,
             TemplatesBody(templates), <<>>)
    /\ UNCHANGED <<pagePc, loadVars, listVars, formVars, isLoading,
                   isSavingSettings, successMessage, activityLogs,
                   selectionVars, clock, resolverVars, mergeVars, authVars>>

\* saveSettings up to its await
SaveSettings ==
    /\ CanAct /\ Acted
    /\ ~isSavingSettings
    /\ isSavingSettings' = TRUE
    /\ errorMessage' = Null
    /\ Fetch("saveSettings", "PUT", <<"settings">>, settings, <<>>)
    /\ UNCHANGED <<pagePc, loadVars, listVars, formVars, isLoading,
                   isSavingTemplate, successMessage, activityLogs,
                   selectionVars, clock, resolverVars, mergeVars, authVars>>

MessageBody(channel, message, templateType) ==
    [channel |-> channel, message |-> message, templateType |-> templateType]

\* sendReminder up to its await
SendReminder ==
    /\ CanAct /\ Acted
    /\ \E n \in 1..Len(appointments) :
        LET appointment == appointments[n]
            channel == appointment.reminderChannel
            message ==
                applyVariables(templates[channel]["reminder"],
                    SpreadOver(templateVariables,
                        (KeyPatientName :> appointment.patientName)
                        @@ (KeyDate :> formatDate(appointment.datetime))
                        @@ (KeyTime :> formatTime(appointment.datetime))
                        @@ (KeyProcedure :> appointment.procedure)
                        @@ (KeyProfessional :> appointment.professional)))
        IN  Fetch("sendReminder", "POST",
                  <<"appointments", appointment.id, "reminder">>,
                  MessageBody(channel, message, "reminder"), appointment)
    /\ successMessage' = Null
    /\ errorMessage' = Null
    /\ UNCHANGED <<pagePc, loadVars, listVars, formVars, flagVars,
                   activityLogs, selectionVars, clock,
                   resolverVars, mergeVars, authVars>>

\* prev.map((item) => item.id === id ? { ...item, status } : item)
WithStatus(list, id, status) ==
    [n \in 1..Len(list) |->
        IF list[n].id = id THEN [list[n] EXCEPT !.status = status]
        ELSE list[n]]

\* confirmAppointment up to its await; the button is shown while the
\* appointment is not confirmed
ConfirmAppointment ==
    /\ CanAct /\ Acted
    /\ \E n \in 1..Len(appointments) :
        LET appointment == appointments[n]
        IN  /\ appointment.status # "confirmed"
            /\ appointments' = WithStatus(appointments, appointment.id,
                                          "confirmed")
            /\ Fetch("confirmAppointment", "POST",
                     <<"appointments", appointment.id, "confirm">>, <<>>,
                     appointment)
    /\ UNCHANGED <<pagePc, loadVars, reactivationPatients, waitlist, formVars,
                   flagVars, noticeVars, activityLogs, selectionVars, clock,
                   resolverVars, mergeVars, authVars>>

\* cancelAppointment up to its await; the button is shown while the
\* appointment is not canceled
CancelAppointment ==
    /\ CanAct /\ Acted
    /\ \E n \in 1..Len(appointments) :
        LET appointment == appointments[n]
        IN  /\ appointment.status # "canceled"
            /\ appointments' = WithStatus(appointments, appointment.id,
                                          "canceled")
            /\ Fetch("cancelAppointment", "POST",
                     <<"appointments", appointment.id, "cancel">>, <<>>,
                     appointment)
    /\ UNCHANGED <<pagePc, loadVars, reactivationPatients, waitlist, formVars,
                   flagVars, noticeVars, activityLogs, selectionVars, clock,
                   resolverVars, mergeVars, authVars>>

\* prev.filter((item) => item.id !== id)
WithoutId(list, id) == SelectSeq(list, LAMBDA item : item.id # id)

\* reactivatePatient up to its await
ReactivatePatient ==
    /\ CanAct /\ Acted
    /\ \E n \in 1..Len(reactivationPatients) :
        LET patient == reactivationPatients[n]
            message ==
                applyVariables(templates["whatsapp"]["reactivation"],
                    SpreadOver(templateVariables,
                        (KeyPatientName :> patient.patientName)
                        @@ (KeyLastVisit :> formatDate(patient.lastVisit))))
        IN  /\ reactivationPatients' =
                    WithoutId(reactivationPatients, patient.id)
            /\ Fetch("reactivatePatient", "POST",
                     <<"reactivation", patient.id, "send">>,
                     MessageBody("whatsapp", message, "reactivation"),
                     patient)
    /\ UNCHANGED <<pagePc, loadVars, appointments, waitlist, formVars,
                   flagVars, noticeVars, activityLogs, selectionVars, clock,
                   resolverVars, mergeVars, authVars>>

\* `wl-${Date.now()}`
WaitlistAppointmentId(ms) == <<"wl-0", "wl-1", "wl-2">>[ms + 1]

\* fillGapWithWaitlist up to its await
FillGapWithWaitlist ==
    /\ CanAct /\ Acted
    /\ \E n \in 1..Len(waitlist) : \E now \in Readings :
        LET waitlistPatient == waitlist[n]
            message ==
                applyVariables(templates["whatsapp"]["waitlist_call"],
                    SpreadOver(templateVariables,
                        (KeyPatientName :> waitlistPatient.patientName)
                        @@ (KeyProcedure :> waitlistPatient.treatment)))
            newAppointment ==
                [id |-> WaitlistAppointmentId(now),
                 patientName |-> waitlistPatient.patientName,
                 patientPhone |-> waitlistPatient.phone,
                 datetime |-> IsoAfterDays(now, 1),
                 procedure |-> waitlistPatient.treatment,
                 professional |-> <<"E", "q", "u", "i", "p", "e", " ", "c", "l", "í", "n", "i", "c", "a">>,
                 status |-> "pending_confirmation",
                 reminderChannel |-> "whatsapp"]
        IN  /\ clock' = now
            /\ waitlist' = WithoutId(waitlist, waitlistPatient.id)
            /\ appointments' = <<newAppointment>> \o appointments
            /\ Fetch("fillGapWithWaitlist", "POST",
                     <<"waitlist", waitlistPatient.id, "call">>,
                     MessageBody("whatsapp", message, "waitlist_call"),
                     waitlistPatient)
    /\ UNCHANGED <<pagePc, loadVars, reactivationPatients, formVars,
                   flagVars, noticeVars, activityLogs, selectionVars,
                   resolverVars, mergeVars, authVars>>

---------------------------------------------------------------------------
(* The page: the handlers behind their await *)

\* how a request may settle: the response is OK, or it is not OK, with or
\* without a message in its JSON body, or the fetch rejects with an Error
Outcomes == {"ok", "notok_message", "notok_plain", "rejected"}

\* the message of the JSON body of a non-OK response, by endpoint
BackendMessage ==
    (<<"templates">> :> <<"T", "e", "m", "p", "l", "a", "t", "e", " ", "i", "n", "v", "á", "l", "i", "d", "o", ".">>)
    @@ (<<"settings">> :> <<"H", "o", "r", "á", "r", "i", "o", " ", "i", "n", "v", "á", "l", "i", "d", "o", ".">>)

FetchErrorMessage == <<"F", "a", "i", "l", "e", "d", " ", "t", "o", " ", "f", "e", "t", "c", "h">>

\* the message of the backend's payload is not looked at
FailureMessageGeneric(request, fallback) ==
    IF request.status = "rejected" THEN FetchErrorMessage ELSE fallback

\* payload?.message || fallback, thrown and caught: error.message
FailureMessage(request, fallback) ==
    CASE request.status = "notok_message" -> BackendMessage[request.path]
      [] request.status = "notok_plain" -> fallback
      [] OTHER -> FetchErrorMessage

Pending(handler) == {n \in DOMAIN requests : requests[n].handler = handler}

\* the requests of a handler the backend has answered
Answered(handler) == {n \in Pending(handler) : requests[n].status # "pending"}

\* only the two save handlers read the body of a non-OK response; for the
\* other handlers its message makes no difference
OutcomesOf(handler) ==
    IF handler \in {"saveTemplates", "saveSettings"} THEN Outcomes
    ELSE Outcomes \ {"notok_message"}

\* the fetch of a handler settles
Responds ==
    /\ \E n \in DOMAIN requests :
       \E outcome \in OutcomesOf(requests[n].handler) :
        /\ requests[n].status = "pending"
        /\ requests' = [requests EXCEPT ![n].status = outcome]
    /\ UNCHANGED <<pagePc, loadVars, listVars, formVars, flagVars, noticeVars,
                   activityLogs, selectionVars, sentCount, clock, actionsLeft,
                   resolverVars, mergeVars, authVars>>

\* the handler goes on behind its await: the request is over
Settled(n) ==
    /\ requests' = Without(n)
    /\ UNCHANGED <<pagePc, loadVars, sentCount, actionsLeft, resolverVars,
                   mergeVars, authVars>>

\* the saving flag is reset behind a successful save only, not in a finally
\* block
SaveTemplatesSettlesNoFinally ==
    \E n \in Answered("saveTemplates") :
      LET outcome == requests[n].status
      IN
        /\ Settled(n)
        /\ IF cancelled
           THEN UNCHANGED <<noticeVars, isSavingTemplate>>
           ELSE /\ IF outcome = "ok"
                   THEN /\ successMessage' =
                                Text(<<"T", "e", "m", "p", "l", "a", "t", "e", "s", " ", "s", "a", "l", "v", "o", "s", " ", "c", "o", "m", " ", "s", "u", "c", "e", "s", "s", "o", ".">>)
                        /\ UNCHANGED errorMessage
                   ELSE /\ errorMessage' =
                                Text(FailureMessage(requests[n],
                                        <<"F", "a", "l", "h", "a", " ", "a", "o", " ", "s", "a", "l", "v", "a", "r", " ", "t", "e", "m", "p", "l", "a", "t", "e", "s", ".">>))
                        /\ UNCHANGED successMessage
                /\ isSavingTemplate' = (outcome # "ok")
        /\ UNCHANGED <<listVars, formVars, isLoading, isSavingSettings,
                       activityLogs, selectionVars, clock>>

\* saveTemplates behind its await
SaveTemplatesSettles ==
    \E n \in Answered("saveTemplates") :
      LET outcome == requests[n].status
      IN
        /\ Settled(n)
        /\ IF cancelled
           THEN UNCHANGED <<noticeVars, isSavingTemplate>>
           ELSE /\ IF outcome = "ok"
                   THEN /\ successMessage' =
                                Text(<<"T", "e", "m", "p", "l", "a", "t", "e", "s", " ", "s", "a", "l", "v", "o", "s", " ", "c", "o", "m", " ", "s", "u", "c", "e", "s", "s", "o", ".">>)
                        /\ UNCHANGED errorMessage
                   ELSE /\ errorMessage' =
                                Text(FailureMessage(requests[n],
                                        <<"F", "a", "l", "h", "a", " ", "a", "o", " ", "s", "a", "l", "v", "a", "r", " ", "t", "e", "m", "p", "l", "a", "t", "e", "s", ".">>))
                        /\ UNCHANGED successMessage
                /\ isSavingTemplate' = FALSE
        /\ UNCHANGED <<listVars, formVars, isLoading, isSavingSettings,
                       activityLogs, selectionVars, clock>>

\* saveSettings behind its await
SaveSettingsSettles ==
    \E n \in Answered("saveSettings") :
      LET outcome == requests[n].status
      IN
        /\ Settled(n)
        /\ IF cancelled
           THEN UNCHANGED <<noticeVars, isSavingSettings>>
           ELSE /\ IF outcome = "ok"
                   THEN /\ successMessage' =
                                Text(<<"C", "o", "n", "f", "i", "g", "u", "r", "a", "ç", "õ", "e", "s", " ", "d", "e", " ", "a", "u", "t", "o", "m", "a", "ç", "ã", "o", " ", "a", "t", "u", "a", "l", "i", "z", "a", "d", "a", "s", ".">>)
                        /\ UNCHANGED errorMessage
                   ELSE /\ errorMessage' =
                                Text(FailureMessage(requests[n],
                                        <<"F", "a", "l", "h", "a", " ", "a", "o", " ", "s", "a", "l", "v", "a", "r", " ", "a", "u", "t", "o", "m", "a", "ç", "õ", "e", "s", ".">>))
                        /\ UNCHANGED successMessage
                /\ isSavingSettings' = FALSE
        /\ UNCHANGED <<listVars, formVars, isLoading, isSavingTemplate,
                       activityLogs, selectionVars, clock>>

\* sendReminder treats a non-OK response as a failure
SendReminderSettlesChecksOk ==
    \E n \in Answered("sendReminder") :
        LET outcome == requests[n].status
            appointment == requests[n].about
            channel == requests[n].body.channel
        IN  /\ Settled(n)
            /\ IF cancelled
               THEN UNCHANGED <<noticeVars, activityLogs, clock>>
               ELSE IF outcome = "ok"
               THEN /\ successMessage' =
                            Text(<<"L", "e", "m", "b", "r", "e", "t", "e", " ", "e", "n", "v", "i", "a", "d", "o", " ", "p", "a", "r", "a", " ">>
                                 \o appointment.patientName \o <<" ", "v", "i", "a", " ">>
                                 \o channelLabel[channel] \o <<".">>)
                    /\ \E now \in Readings :
                            /\ clock' = now
                            /\ activityLogs' =
                                    PushedLog(now, <<"L", "e", "m", "b", "r", "e", "t", "e", " ", "e", "n", "v", "i", "a", "d", "o">>,
                                              appointment.patientName, channel)
                    /\ UNCHANGED errorMessage
               ELSE /\ errorMessage' =
                            Text(<<"F", "a", "l", "h", "a", " ", "a", "o", " ", "e", "n", "v", "i", "a", "r", " ", "l", "e", "m", "b", "r", "e", "t", "e", " ", "n", "o", " ", "m", "o", "m", "e", "n", "t", "o", ".">>)
                    /\ UNCHANGED <<successMessage, activityLogs, clock>>
            /\ UNCHANGED <<listVars, formVars, flagVars, selectionVars>>

\* sendReminder behind its await: the response is not looked at
SendReminderSettles ==
    \E n \in Answered("sendReminder") :
        LET outcome == requests[n].status
            appointment == requests[n].about
            channel == requests[n].body.channel
        IN  /\ Settled(n)
            /\ IF cancelled
               THEN UNCHANGED <<noticeVars, activityLogs, clock>>
               ELSE IF outcome # "rejected"
               THEN /\ successMessage' =
                            Text(<<"L", "e", "m", "b", "r", "e", "t", "e", " ", "e", "n", "v", "i", "a", "d", "o", " ", "p", "a", "r", "a", " ">>
                                 \o appointment.patientName \o <<" ", "v", "i", "a", " ">>
                                 \o channelLabel[channel] \o <<".">>)
                    /\ \E now \in Readings :
                            /\ clock' = now
                            /\ activityLogs' =
                                    PushedLog(now, <<"L", "e", "m", "b", "r", "e", "t", "e", " ", "e", "n", "v", "i", "a", "d", "o">>,
                                              appointment.patientName, channel)
                    /\ UNCHANGED errorMessage
               ELSE /\ errorMessage' =
                            Text(<<"F", "a", "l", "h", "a", " ", "a", "o", " ", "e", "n", "v", "i", "a", "r", " ", "l", "e", "m", "b", "r", "e", "t", "e", " ", "n", "o", " ", "m", "o", "m", "e", "n", "t", "o", ".">>)
                    /\ UNCHANGED <<successMessage, activityLogs, clock>>
            /\ UNCHANGED <<listVars, formVars, flagVars, selectionVars>>

\* a rejected request takes the status of its appointment back
QuietSettlesRollback(n, outcome, notice, action, target, channel) ==
    /\ Settled(n)
    /\ IF cancelled \/ outcome = "rejected"
       THEN UNCHANGED <<noticeVars, activityLogs, clock>>
       ELSE /\ successMessage' = Text(notice)
            /\ \E now \in Readings :
                    /\ clock' = now
                    /\ activityLogs' = PushedLog(now, action, target, channel)
            /\ UNCHANGED errorMessage
    /\ IF ~cancelled /\ outcome = "rejected"
       THEN /\ appointments' =
                    WithStatus(appointments, requests[n].about.id,
                               "pending_confirmation")
            /\ UNCHANGED <<reactivationPatients, waitlist>>
       ELSE UNCHANGED listVars
    /\ UNCHANGED <<formVars, flagVars, selectionVars>>

\* the handlers that report a fulfilled request and are silent about a
\* rejected one
QuietSettles(n, outcome, notice, action, target, channel) ==
    /\ Settled(n)
    /\ IF cancelled \/ outcome = "rejected"
       THEN UNCHANGED <<noticeVars, activityLogs, clock>>
       ELSE /\ successMessage' = Text(notice)
            /\ \E now \in Readings :
                    /\ clock' = now
                    /\ activityLogs' = PushedLog(now, action, target, channel)
            /\ UNCHANGED errorMessage
    /\ UNCHANGED <<listVars, formVars, flagVars, selectionVars>>

\* confirmAppointment behind its await
ConfirmAppointmentSettles ==
    \E n \in Answered("confirmAppointment") :
        QuietSettles(n, requests[n].status,
            <<"C", "o", "n", "s", "u", "l", "t", "a", " ", "d", "e", " ">> \o requests[n].about.patientName
                \o <<" ", "c", "o", "n", "f", "i", "r", "m", "a", "d", "a", ".">>,
            <<"C", "o", "n", "s", "u", "l", "t", "a", " ", "c", "o", "n", "f", "i", "r", "m", "a", "d", "a">>, requests[n].about.patientName, NoChannel)

\* cancelAppointment behind its await
CancelAppointmentSettles ==
    \E n \in Answered("cancelAppointment") :
        QuietSettles(n, requests[n].status,
            <<"C", "o", "n", "s", "u", "l", "t", "a", " ", "d", "e", " ">> \o requests[n].about.patientName
                \o <<" ", "c", "a", "n", "c", "e", "l", "a", "d", "a", ".">>,
            <<"C", "o", "n", "s", "u", "l", "t", "a", " ", "c", "a", "n", "c", "e", "l", "a", "d", "a">>, requests[n].about.patientName, NoChannel)

\* reactivatePatient behind its await
ReactivatePatientSettles ==
    \E n \in Answered("reactivatePatient") :
        QuietSettles(n, requests[n].status,
            <<"C", "a", "m", "p", "a", "n", "h", "a", " ", "e", "n", "v", "i", "a", "d", "a", " ", "p", "a", "r", "a", " ">> \o requests[n].about.patientName
                \o <<".">>,
            <<"C", "a", "m", "p", "a", "n", "h", "a", " ", "d", "e", " ", "r", "e", "a", "t", "i", "v", "a", "ç", "ã", "o">>, requests[n].about.patientName,
            "whatsapp")

\* fillGapWithWaitlist behind its await
FillGapWithWaitlistSettles ==
    \E n \in Answered("fillGapWithWaitlist") :
        QuietSettles(n, requests[n].status,
            requests[n].about.patientName
                \o <<" ", "f", "o", "i", " ", "a", "c", "i", "o", "n", "a", "d", "o", "(", "a", ")", " ", "p", "a", "r", "a", " ", "e", "n", "c", "a", "i", "x", "e", ".">>,
            <<"C", "h", "a", "m", "a", "d", "a", " ", "d", "e", " ", "e", "n", "c", "a", "i", "x", "e">>, requests[n].about.patientName,
            "whatsapp")

PageNext ==
    \/ Mount \/ Unmount
    \/ GetSettles \/ LoadFulfilled \/ LoadRejected \/ Responds
    \/ SelectTemplateType \/ SelectTemplateChannel \/ SelectPreview
    \/ EditTemplate \/ EditClinicName \/ EditSettings
    \/ SaveTemplates \/ SaveTemplatesSettles
    \/ SaveSettings \/ SaveSettingsSettles
    \/ SendReminder \/ SendReminderSettles
    \/ ConfirmAppointment \/ ConfirmAppointmentSettles
    \/ CancelAppointment \/ CancelAppointmentSettles
    \/ ReactivatePatient \/ ReactivatePatientSettles
    \/ FillGapWithWaitlist \/ FillGapWithWaitlistSettles

PageSpec == PageInit /\ [][PageNext]_vars

---------------------------------------------------------------------------
(* The page after its initial load, for behaviours of several operator
   actions on the lists *)

\* number of operator actions in a behaviour of quick calls
BurstActions == 2

\* the page once loadData has ended with the three lists given and with
\* empty payloads of templates and settings, with a number of operator
\* actions to come
LoadedPage(nextAppointments, nextReactivation, nextWaitlist, left) ==
    /\ pagePc = "mounted"
    /\ gets = [g \in GetNames |-> "closed"]
    /\ loadPc = "done"
    /\ loadWrites = 1
    /\ appointments = nextAppointments
    /\ reactivationPatients = nextReactivation
    /\ waitlist = nextWaitlist
    /\ templates = defaultTemplates
    /\ settings = defaultSettings
    /\ clinicName = <<"C", "l", "í", "n", "i", "c", "a", " ", "S", "o", "r", "r", "i", "s", "o">>
    /\ isLoading = FALSE
    /\ isSavingTemplate = FALSE
    /\ isSavingSettings = FALSE
    /\ errorMessage = Null
    /\ successMessage = Null
    /\ activityLogs = <<>>
    /\ selectedTemplateChannel = "whatsapp"
    /\ selectedTemplateType = "reminder"
    /\ selectedAppointmentId = FirstIdOrEmpty(nextAppointments)
    /\ selectedReactivationId = FirstIdOrEmpty(nextReactivation)
    /\ selectedWaitlistId = FirstIdOrEmpty(nextWaitlist)
    /\ requests = <<>>
    /\ sentCount = 0
    /\ clock = 0
    /\ actionsLeft = left
    /\ template = <<>>
    /\ variables = <<>>
    /\ rendered = <<>>
    /\ rerendered = <<>>
    /\ pc = "idle"
    /\ incoming = NoTemplates
    /\ merged = defaultTemplates
    /\ mergePc = "idle"
    /\ AuthIdle

\* the sample lists are shown
BurstInit ==
    LoadedPage(sampleAppointments, sampleReactivation, sampleWaitlist,
               BurstActions)

\* the operator works on the agenda and the waitlist
BurstNext ==
    \/ FillGapWithWaitlist \/ FillGapWithWaitlistSettles
    \/ ConfirmAppointment \/ ConfirmAppointmentSettles
    \/ CancelAppointment \/ CancelAppointmentSettles
    \/ Responds

BurstSpec == BurstInit /\ [][BurstNext]_vars

---------------------------------------------------------------------------
(* The page after its initial load, for a long row of reported actions *)

\* number of operator actions in a behaviour that fills the activity log
LogActions == 9

\* the backend's agenda of one appointment is shown
LogInit ==
    LoadedPage(backendAppointments, sampleReactivation, backendWaitlist,
               LogActions)

\* the operator sends a reminder once the request before is over
SendReminderInTurn == requests = <<>> /\ SendReminder

\* the operator confirms the appointment once the request before is over
ConfirmAppointmentInTurn == requests = <<>> /\ ConfirmAppointment

LogNext ==
    \/ SendReminderInTurn \/ SendReminderSettles
    \/ ConfirmAppointmentInTurn \/ ConfirmAppointmentSettles
    \/ Responds

LogSpec == LogInit /\ [][LogNext]_vars

---------------------------------------------------------------------------
(* The sign-in form (src/src/components/auth/SignInForm.tsx), the auth     *)
(* keys of the two web storages (src/src/utils/auth.ts) and the protected  *)
(* route (src/src/components/auth/ProtectedRoute.tsx).  One SignInForm is  *)
(* followed from its mount to its unmount; the protected route may be      *)
(* visited before, during and after a login.                               *)

\* submit events of a behaviour
MaxSubmits == 2

\* visits of the protected route the user makes on their own
MaxVisits == 2

AUTH_TOKEN_KEY == "odonto_auth_token"
AUTH_USER_KEY == "odonto_auth_user"
AUTH_EMAIL_KEY == "odonto_auth_email"
AuthKeys == {AUTH_TOKEN_KEY, AUTH_USER_KEY, AUTH_EMAIL_KEY}

\* a storage without the auth keys: getItem gives null for each of them
Cleared == [k \in AuthKeys |-> Null]

\* storage.setItem(key, value)
setItem(storage, key, value) == [storage EXCEPT ![key] = Text(value)]

\* whether a string | null | undefined is truthy
Present(v) == ~v.isNull /\ v.text # <<>>

\* the value of a || chain: the first truthy operand, else the last one
RECURSIVE FirstTruthy(_)
FirstTruthy(operands) ==
    IF Len(operands) = 1 \/ Present(Head(operands))
    THEN Head(operands)
    ELSE FirstTruthy(Tail(operands))

\* getAuthToken reading only sessionStorage
getAuthTokenSessionOnly == sessionStorage[AUTH_TOKEN_KEY]

\* getAuthToken: localStorage first, sessionStorage if it holds none
getAuthToken ==
    IF Present(localStorage[AUTH_TOKEN_KEY])
    THEN localStorage[AUTH_TOKEN_KEY]
    ELSE sessionStorage[AUTH_TOKEN_KEY]

hasAuthToken == Present(getAuthToken)

---------------------------------------------------------------------------
(* resolveLoginApiCandidates *)

\* s.replace(/\/$/, "")
RemoveTrailingSlash(s) ==
    IF Len(s) > 0 /\ s[Len(s)] = "/" THEN SubSeq(s, 1, Len(s) - 1) ELSE s

StartsWith(s, prefix) ==
    Len(s) >= Len(prefix) /\ SubSeq(s, 1, Len(prefix)) = prefix

EndsWith(s, suffix) ==
    /\ Len(s) >= Len(suffix)
    /\ SubSeq(s, Len(s) - Len(suffix) + 1, Len(s)) = suffix

\* s.replace(/suffix$/, by) for a suffix of literal characters
ReplaceSuffix(s, suffix, by) ==
    IF EndsWith(s, suffix)
    THEN SubSeq(s, 1, Len(s) - Len(suffix)) \o by
    ELSE s

AuthLoginPath == <<"/", "a", "u", "t", "h", "/", "l", "o", "g", "i", "n">>
LoginPath == <<"/", "l", "o", "g", "i", "n">>

\* the schemes of the URLs the environments below hold
Schemes == {<<"h", "t", "t", "p", ":", "/", "/">>, <<"h", "t", "t", "p", "s", ":", "/", "/">>}

\* new URL(s) does not throw: s is an absolute URL
IsAbsoluteUrl(s) == \E p \in Schemes : StartsWith(s, p) /\ Len(s) > Len(p)

RECURSIVE AuthorityEnd(_, _)
\* the last index of the authority that starts at index i
AuthorityEnd(s, i) ==
    IF i > Len(s) \/ s[i] \in {"/", "?", "#"}
    THEN i - 1
    ELSE AuthorityEnd(s, i + 1)

\* new URL(s).origin for a lower-case URL without a default port
Origin(s) ==
    LET p == CHOOSE q \in Schemes : StartsWith(s, q)
    IN  SubSeq(s, 1, AuthorityEnd(s, Len(p) + 1))

RECURSIVE Unique(_)
\* [...new Set(list)]: the first occurrence of each element, in order
Unique(list) ==
    IF list = <<>> THEN <<>>
    ELSE LET front == Unique(SubSeq(list, 1, Len(list) - 1))
             last == list[Len(list)]
         IN  IF \E i \in 1..Len(front) : front[i] = last
             THEN front
             ELSE Append(front, last)

\* import.meta.env: each of the two variables is a string or undefined
Env(login, api) == [VITE_LOGIN_API_URL |-> login, VITE_API_URL |-> api]

Environments ==
    {Env(Null, Null),
     Env(Text(<<"h", "t", "t", "p", ":", "/", "/", "h", "/", "i", "n", "/">>), Null),
     Env(Null, Text(<<"h", "t", "t", "p", ":", "/", "/", "h", "/", "a", "u", "t", "h", "/", "r", "e", "g", "i", "s", "t", "e", "r">>)),
     Env(Null, Text(<<"/", "a", "p", "i", "/">>))}

resolveLoginApiCandidates ==
    LET explicitUrl == env.VITE_LOGIN_API_URL
        rawApiUrl ==
            IF env.VITE_API_URL.isNull THEN <<>> ELSE env.VITE_API_URL.text
        normalized == RemoveTrailingSlash(rawApiUrl)
        derivedFromRegister ==
            ReplaceSuffix(
                ReplaceSuffix(normalized, <<"/", "a", "u", "t", "h", "/", "r", "e", "g", "i", "s", "t", "e", "r">>, AuthLoginPath),
                <<"/", "r", "e", "g", "i", "s", "t", "e", "r">>, LoginPath)
        base ==
            IF IsAbsoluteUrl(rawApiUrl) THEN Origin(rawApiUrl) ELSE normalized
    IN  IF Present(explicitUrl)
        THEN <<RemoveTrailingSlash(explicitUrl.text)>>
        ELSE IF rawApiUrl = <<>>
             THEN <<AuthLoginPath, LoginPath>>
             ELSE Unique(<<derivedFromRegister, base \o AuthLoginPath,
                           base \o LoginPath, AuthLoginPath, LoginPath>>)

---------------------------------------------------------------------------
(* The answers of the login endpoint *)

\* tokens: the one an earlier login left, the one the backend issues now
EarlierToken == <<"t", "0">>
IssuedToken == <<"t", "1">>

\* the user object of a login response
UserAna == [name |-> <<"A", "n", "a">>]

\* JSON.stringify of a user object
JsonStringify(user) ==
    <<"{", "\"", "n", "a", "m", "e", "\"", ":", "\"">> \o user.name
        \o <<"\"", "}">>

\* a body response.json() rejects for
Unparseable == [parsed |-> FALSE, object |-> EmptyObject]
Parsed(object) == [parsed |-> TRUE, object |-> object]

\* bodies of OK responses: the token at the top, the token and the user
\* under data, and no token at all
OkBodies ==
    {Parsed([token |-> IssuedToken]),
     Parsed([data |-> [accessToken |-> IssuedToken, user |-> UserAna]]),
     Parsed(EmptyObject),
     Unparseable}

\* the body a status comes with: a message of the backend, or no JSON
ErrorBody(status) ==
    IF status \in {401, 405}
    THEN Parsed([message |-> <<"C", "r", "e", "d", "e", "n", "c", "i", "a", "i", "s", " ", "i", "n", "v", "á", "l", "i", "d", "a", "s", ".">>])
    ELSE Unparseable

\* fetch rejected: no response
Rejected == [rejected |-> TRUE, status |-> 0, body |-> Unparseable]
Response(status, body) ==
    [rejected |-> FALSE, status |-> status, body |-> body]

ErrorStatuses == {401, 404, 405, 500}

Answers ==
    {Rejected}
        \cup {Response(200, b) : b \in OkBodies}
        \cup {Response(s, ErrorBody(s)) : s \in ErrorStatuses}

\* response.ok
Ok(answer) == answer.status \in 200..299

\* obj.key for a string property: undefined if the object has none
StringProperty(obj, key) ==
    IF key \in DOMAIN obj THEN Text(obj[key]) ELSE Null

\* payload.data?.key
DataProperty(obj, key) ==
    IF "data" \in DOMAIN obj THEN StringProperty(obj.data, key) ELSE Null

\* payload.token || payload.accessToken || payload.jwt ||
\* payload.data?.token || payload.data?.accessToken
TokenOf(payload) ==
    FirstTruthy(<<StringProperty(payload, "token"),
                  StringProperty(payload, "accessToken"),
                  StringProperty(payload, "jwt"),
                  DataProperty(payload, "token"),
                  DataProperty(payload, "accessToken")>>)

\* payload.user || payload.data?.user, serialised; null if there is none
UserOf(payload) ==
    IF "user" \in DOMAIN payload THEN Text(JsonStringify(payload.user))
    ELSE IF "data" \in DOMAIN payload /\ "user" \in DOMAIN payload.data
         THEN Text(JsonStringify(payload.data.user))
         ELSE Null

\* await response.json().catch(() => fallback)
JsonOr(body, fallback) == IF body.parsed THEN body.object ELSE fallback

---------------------------------------------------------------------------
(* SignInForm *)

\* what the user types
EmailInputs == {<<" ", "a", "@", "b", " ">>}
PasswordInputs == {<<"p">>}

WhiteSpace == {" ", "\t", "\n"}

RECURSIVE Trim(_)
\* String.prototype.trim
Trim(s) ==
    IF s = <<>> THEN s
    ELSE IF Head(s) \in WhiteSpace THEN Trim(Tail(s))
    ELSE IF s[Len(s)] \in WhiteSpace THEN Trim(SubSeq(s, 1, Len(s) - 1))
    ELSE s

SignInPath == <<"/", "s", "i", "g", "n", "i", "n">>
HomePath == <<"/">>

\* no handleSubmit is running
IdleCall ==
    [pc |-> "idle", index |-> 0, email |-> <<>>, isChecked |-> FALSE,
     lastErrorMessage |-> <<>>, answer |-> Rejected]

\* handleChange(field): the user types into the email or the password input
HandleChange ==
    /\ signInPc = "mounted"
    /\ \/ \E value \in EmailInputs :
            formValues' = [formValues EXCEPT !.email = value]
       \/ \E value \in PasswordInputs :
            formValues' = [formValues EXCEPT !.password = value]
    /\ UNCHANGED <<env, storageVars, location, signInPc, isChecked,
                   isSubmitting, formError, formSuccess, callVars, routeVars,
                   windowVars, submitsLeft, visitsLeft, resolverVars,
                   mergeVars, pageVars>>

\* the checkbox "keep me connected": setIsChecked
ToggleChecked ==
    /\ signInPc = "mounted"
    /\ isChecked' = ~isChecked
    /\ UNCHANGED <<env, storageVars, location, signInPc, isSubmitting,
                   formError, formSuccess, formValues, callVars, routeVars,
                   windowVars, submitsLeft, visitsLeft, resolverVars,
                   mergeVars, pageVars>>

\* fetch(endpoint, {method: "POST", body: JSON.stringify({email, password})})
Post(endpoint, email, password) ==
    [endpoint |-> endpoint, email |-> email, password |-> password]

\* handleSubmit from the submit event to its first await
Submit ==
    /\ signInPc = "mounted"
    /\ submitsLeft > 0
    /\ submitsLeft' = submitsLeft - 1
    /\ LET email == Trim(formValues.email)
           password == formValues.password
           candidates == resolveLoginApiCandidates
       IN  IF isSubmitting
           THEN UNCHANGED <<isSubmitting, formError, formSuccess, callVars>>
           ELSE IF email = <<>> \/ password = <<>>
           THEN /\ formError' = Text(<<"P", "r", "e", "e", "n", "c", "h", "a", " ", "e", "m", "a", "i", "l", " ", "e", " ", "s", "e", "n", "h", "a", ".">>)
                /\ UNCHANGED <<isSubmitting, formSuccess, callVars>>
           ELSE /\ formError' = Null
                /\ formSuccess' = Null
                /\ isSubmitting' = TRUE
                /\ call' =
                    [pc |-> "pending", index |-> 1, email |-> email,
                     isChecked |-> isChecked,
                     lastErrorMessage |->
                        <<"N", "ã", "o", " ", "f", "o", "i", " ", "p", "o", "s", "s", "í", "v", "e", "l", " ", "e", "n", "t", "r", "a", "r", " ", "c", "o", "m", " ", "a", "s", " ", "c", "r", "e", "d", "e", "n", "c", "i", "a", "i", "s", " ", "i", "n", "f", "o", "r", "m", "a", "d", "a", "s", ".">>,
                     answer |-> Rejected]
                /\ posted' = <<Post(candidates[1], email, password)>>
                /\ UNCHANGED navigateTimers
    /\ UNCHANGED <<env, storageVars, location, signInPc, isChecked,
                   formValues, routeVars, windowVars, visitsLeft,
                   resolverVars, mergeVars, pageVars>>

\* the endpoint answers the request handleSubmit awaits, or the request fails
LoginResponds ==
    /\ call.pc = "pending"
    /\ \E answer \in Answers :
            call' = [call EXCEPT !.pc = "answered", !.answer = answer]
    /\ UNCHANGED <<env, storageVars, location, signInVars, posted,
                   navigateTimers, routeVars, windowVars, submitsLeft,
                   visitsLeft, resolverVars, mergeVars, pageVars>>

\* the loop goes on with the next endpoint after any answer but an OK one
MovesOnUnlessOk(answer) == answer.rejected \/ ~Ok(answer)

\* the loop goes on with the next endpoint: the catch block, and the two
\* continue statements
MovesOn(answer) ==
    \/ answer.rejected
    \/ ~Ok(answer) /\ (answer.status >= 500 \/ answer.status \in {404, 405})

\* lastErrorMessage behind an answer that is not an OK response
ErrorMessageOf(answer) ==
    IF answer.rejected THEN <<"F", "a", "l", "h", "a", " ", "a", "o", " ", "c", "o", "n", "e", "c", "t", "a", "r", " ", "c", "o", "m", " ", "o", " ", "s", "e", "r", "v", "i", "d", "o", "r", ".">>
    ELSE LET payload == JsonOr(answer.body, EmptyObject)
             message == StringProperty(payload, "message")
         IN  IF Present(message) THEN message.text
             ELSE <<"N", "ã", "o", " ", "f", "o", "i", " ", "p", "o", "s", "s", "í", "v", "e", "l", " ", "a", "u", "t", "e", "n", "t", "i", "c", "a", "r", " ", "c", "o", "m", " ", "e", "s", "t", "e", " ", "e", "n", "d", "p", "o", "i", "n", "t", ".">>

\* the writes of an OK response to the storage the checkbox chose
Stored(storage, payload, email) ==
    LET token == TokenOf(payload)
        user == UserOf(payload)
        withToken ==
            IF Present(token)
            THEN setItem(storage, AUTH_TOKEN_KEY, token.text) ELSE storage
        withUser ==
            IF ~user.isNull
            THEN setItem(withToken, AUTH_USER_KEY, user.text) ELSE withToken
    IN  setItem(withUser, AUTH_EMAIL_KEY, email)

\* handleSubmit from the answer of one endpoint to its next await or its end;
\* the setters of a form that is no longer mounted change nothing
LoginSettles ==
    /\ call.pc = "answered"
    /\ LET answer == call.answer
           candidates == resolveLoginApiCandidates
           shown == signInPc = "mounted"
       IN  IF ~answer.rejected /\ Ok(answer)
           THEN LET payload == JsonOr(answer.body, EmptyObject)
                IN  /\ IF call.isChecked
                       THEN /\ localStorage' =
                                Stored(localStorage, payload, call.email)
                            /\ UNCHANGED sessionStorage
                       ELSE /\ sessionStorage' =
                                Stored(sessionStorage, payload, call.email)
                            /\ UNCHANGED localStorage
                    /\ formSuccess' =
                        IF shown THEN Text(<<"L", "o", "g", "i", "n", " ", "r", "e", "a", "l", "i", "z", "a", "d", "o", " ", "c", "o", "m", " ", "s", "u", "c", "e", "s", "s", "o", ".">>)
                        ELSE formSuccess
                    /\ navigateTimers' = navigateTimers + 1
                    /\ isSubmitting' = (~shown /\ isSubmitting)
                    /\ call' = IdleCall
                    /\ posted' = <<>>
                    /\ UNCHANGED formError
           ELSE IF MovesOn(answer) /\ call.index < Len(candidates)
           THEN /\ call' =
                    [call EXCEPT !.pc = "pending", !.index = call.index + 1,
                                 !.lastErrorMessage = ErrorMessageOf(answer),
                                 !.answer = Rejected]
                /\ posted' =
                    Append(posted, Post(candidates[call.index + 1],
                                        posted[1].email, posted[1].password))
                /\ UNCHANGED <<storageVars, formError, formSuccess,
                               isSubmitting, navigateTimers>>
           ELSE /\ formError' =
                    IF shown THEN Text(ErrorMessageOf(answer)) ELSE formError
                /\ isSubmitting' = (~shown /\ isSubmitting)
                /\ call' = IdleCall
                /\ posted' = <<>>
                /\ UNCHANGED <<storageVars, formSuccess, navigateTimers>>
    /\ UNCHANGED <<env, location, signInPc, isChecked, formValues, routeVars,
                   windowVars, submitsLeft, visitsLeft, resolverVars,
                   mergeVars, pageVars>>

\* what a storage holds at the start: nothing, or what an earlier login
\* wrote to it
StoragesBefore ==
    {Cleared,
     setItem(setItem(Cleared, AUTH_TOKEN_KEY, EarlierToken),
             AUTH_EMAIL_KEY, <<"z", "@", "b">>)}

\* a storage after a login of this tab, with and without a user
StoragesAfter ==
    {Stored(Cleared, [token |-> IssuedToken], <<"a", "@", "b">>),
     Stored(Cleared, [token |-> IssuedToken, user |-> UserAna], <<"a", "@", "b">>)}

SignInInit ==
    /\ env \in Environments
    /\ localStorage \in StoragesBefore
    /\ sessionStorage \in StoragesBefore
    /\ location = SignInPath
    /\ signInPc = "mounted"
    /\ isChecked = FALSE
    /\ isSubmitting = FALSE
    /\ formError = Null
    /\ formSuccess = Null
    /\ formValues = [email |-> <<>>, password |-> <<>>]
    /\ call = IdleCall
    /\ posted = <<>>
    /\ navigateTimers = 0
    /\ routePc = "unmounted"
    /\ isAuthenticated = FALSE
    /\ focused = TRUE
    /\ storageEvent = FALSE
    /\ submitsLeft = MaxSubmits
    /\ visitsLeft = 0
    /\ template = <<>> /\ variables = <<>> /\ rendered = <<>>
    /\ rerendered = <<>> /\ pc = "idle"
    /\ incoming = NoTemplates /\ merged = defaultTemplates
    /\ mergePc = "idle"
    /\ PageIdle

---------------------------------------------------------------------------
(* ProtectedRoute *)

\* the route renders with the state hasAuthToken gives: the Outlet, or the
\* Navigate element that replaces the location by /signin
Rendered(place) ==
    /\ isAuthenticated' = hasAuthToken
    /\ IF hasAuthToken
       THEN routePc' = "mounted" /\ location' = place
       ELSE routePc' = "redirected" /\ location' = SignInPath

\* the route is mounted at the path /: useState(hasAuthToken) and the effect
\* that calls syncAuthState; the SignInForm is left
Entered ==
    /\ signInPc' = IF signInPc = "mounted" THEN "unmounted" ELSE signInPc
    /\ IF routePc = "mounted"
       THEN UNCHANGED <<routeVars, location>>
       ELSE Rendered(HomePath)

\* the timer of the form fires: navigate("/")
NavigateFires ==
    /\ navigateTimers > 0
    /\ navigateTimers' = navigateTimers - 1
    /\ Entered
    /\ UNCHANGED <<env, storageVars, isChecked, isSubmitting, formError,
                   formSuccess, formValues, call, posted, windowVars,
                   submitsLeft, visitsLeft, resolverVars, mergeVars,
                   pageVars>>

\* the user opens the protected route from the sign-in page
OpenProtected ==
    /\ visitsLeft > 0
    /\ routePc # "mounted"
    /\ visitsLeft' = visitsLeft - 1
    /\ Entered
    /\ UNCHANGED <<env, storageVars, isChecked, isSubmitting, formError,
                   formSuccess, formValues, callVars, windowVars,
                   submitsLeft, resolverVars, mergeVars, pageVars>>

\* syncAuthState of a mounted route, and the render that follows it
syncAuthState ==
    IF routePc = "mounted"
    THEN Rendered(location)
    ELSE UNCHANGED <<routeVars, location>>

\* window.setInterval(syncAuthState, 1000)
TimerFires ==
    /\ routePc = "mounted"
    /\ syncAuthState
    /\ UNCHANGED <<env, storageVars, signInVars, callVars, windowVars,
                   submitsLeft, visitsLeft, resolverVars, mergeVars,
                   pageVars>>

\* the window loses the focus
Blur ==
    /\ focused
    /\ focused' = FALSE
    /\ UNCHANGED <<env, storageVars, location, signInVars, callVars,
                   routeVars, storageEvent, submitsLeft, visitsLeft,
                   resolverVars, mergeVars, pageVars>>

\* the focus event of the window
Focus ==
    /\ ~focused
    /\ focused' = TRUE
    /\ syncAuthState
    /\ UNCHANGED <<env, storageVars, signInVars, callVars, storageEvent,
                   submitsLeft, visitsLeft, resolverVars, mergeVars,
                   pageVars>>

\* the storage event of a write another tab made to localStorage
StorageEvent ==
    /\ storageEvent
    /\ storageEvent' = FALSE
    /\ syncAuthState
    /\ UNCHANGED <<env, storageVars, signInVars, callVars, focused,
                   submitsLeft, visitsLeft, resolverVars, mergeVars,
                   pageVars>>

---------------------------------------------------------------------------
(* Writers of the storages besides the form *)

\* clearAuthStorage in this tab
ClearAuthStorage ==
    /\ <<localStorage, sessionStorage>> # <<Cleared, Cleared>>
    /\ localStorage' = Cleared
    /\ sessionStorage' = Cleared
    /\ UNCHANGED <<env, location, signInVars, callVars, routeVars,
                   windowVars, submitsLeft, visitsLeft, resolverVars,
                   mergeVars, pageVars>>

\* clearAuthStorage in another tab: localStorage is shared with it, its
\* sessionStorage is its own
ClearedElsewhere ==
    /\ localStorage # Cleared
    /\ localStorage' = Cleared
    /\ storageEvent' = TRUE
    /\ UNCHANGED <<env, sessionStorage, location, signInVars, callVars,
                   routeVars, focused, submitsLeft, visitsLeft,
                   resolverVars, mergeVars, pageVars>>

\* a login with "keep me connected" in another tab
SignedInElsewhere ==
    /\ localStorage[AUTH_TOKEN_KEY] # Text(EarlierToken)
    /\ localStorage' = Stored(localStorage, [token |-> EarlierToken], <<"z", "@", "b">>)
    /\ storageEvent' = TRUE
    /\ UNCHANGED <<env, sessionStorage, location, signInVars, callVars,
                   routeVars, focused, submitsLeft, visitsLeft,
                   resolverVars, mergeVars, pageVars>>

\* the form, the timer it starts and the route the timer leads to
SignInNext ==
    \/ HandleChange \/ ToggleChecked \/ Submit
    \/ LoginResponds \/ LoginSettles \/ NavigateFires

SignInSpec == SignInInit /\ [][SignInNext]_vars

\* the protected route on its own: no sign-in form in this tab
RouteInit ==
    /\ env = <<>>
    /\ localStorage \in StoragesBefore \cup StoragesAfter
    /\ sessionStorage \in StoragesBefore \cup StoragesAfter
    /\ location = SignInPath
    /\ signInPc = "idle"
    /\ isChecked = FALSE /\ isSubmitting = FALSE
    /\ formError = <<>> /\ formSuccess = <<>> /\ formValues = <<>>
    /\ call = <<>> /\ posted = <<>> /\ navigateTimers = 0
    /\ routePc = "unmounted"
    /\ isAuthenticated = FALSE
    /\ focused = TRUE
    /\ storageEvent = FALSE
    /\ submitsLeft = 0
    /\ visitsLeft = MaxVisits
    /\ template = <<>> /\ variables = <<>> /\ rendered = <<>>
    /\ rerendered = <<>> /\ pc = "idle"
    /\ incoming = NoTemplates /\ merged = defaultTemplates
    /\ mergePc = "idle"
    /\ PageIdle

RouteNext ==
    \/ OpenProtected \/ TimerFires \/ Blur \/ Focus \/ StorageEvent
    \/ ClearAuthStorage \/ ClearedElsewhere \/ SignedInElsewhere

RouteSpec == RouteInit /\ [][RouteNext]_vars

\* the timer of the mounted route fires again and again
RouteFairSpec == RouteSpec /\ WF_vars(TimerFires)

---------------------------------------------------------------------------
(* Vocabulary of the properties, stated on the strings alone *)

\* s[i..j] is an open brace, one or more word characters, a close brace
IsPlaceholder(s, i, j) ==
    /\ 1 <= i /\ i + 2 <= j /\ j <= Len(s)
    /\ s[i] = "{" /\ s[j] = "}"
    /\ \A k \in (i + 1)..(j - 1) : s[k] \in WordCharacters

PlaceholderSpans(s) ==
    UNION {{<<i, j>> : j \in {m \in (i + 2)..Len(s) : IsPlaceholder(s, i, m)}} :
                i \in {k \in 1..Len(s) : s[k] = "{"}}

HasPlaceholder(s) == PlaceholderSpans(s) # {}

SpanName(s, sp) == SubSeq(s, sp[1] + 1, sp[2] - 1)

HasBrace(s) == \E k \in 1..Len(s) : s[k] \in {"{", "}"}

Covers(spans, k) == \E sp \in spans : sp[1] <= k /\ k <= sp[2]

\* every brace of s belongs to a placeholder
NoStrayBrace(s) ==
    LET spans == PlaceholderSpans(s)
    IN  \A k \in 1..Len(s) : s[k] \in {"{", "}"} => Covers(spans, k)

\* s contains the literal {name}
HasLiteral(s, name) ==
    \E sp \in PlaceholderSpans(s) : SpanName(s, sp) = name

ValuesBraceFree == \A k \in DOMAIN variables : ~HasBrace(variables[k])

ValuesPlaceholderFree ==
    \A k \in DOMAIN variables : ~HasPlaceholder(variables[k])

Before(s, i) == SubSeq(s, 1, i - 1)
After(s, j) == SubSeq(s, j + 1, Len(s))

Done == pc \in {"rendered", "rerendered"}

---------------------------------------------------------------------------
(* C1 *)

\* C1 as stated: whenever no context value contains a placeholder, rendering
\* the rendered string again with the same context gives the same string.
C1_AsStated ==
    (pc = "rerendered" /\ ValuesPlaceholderFree) => rerendered = rendered

\* C1 (amended): whenever every brace of the template belongs to a token and
\* no context value contains a brace character, rendering the rendered string
\* again with the same context gives the same string.
C1_Idempotent ==
    (pc = "rerendered" /\ NoStrayBrace(template) /\ ValuesBraceFree)
        => rerendered = rendered

C1_Witness ==
    /\ pc = "rerendered"
    /\ NoStrayBrace(template) /\ ValuesBraceFree
    /\ Cardinality(PlaceholderSpans(template)) >= 2
    /\ NameX \in DOMAIN variables /\ variables[NameX] = <<"V">>
    /\ HasLiteral(template, NameX)
    /\ rerendered = rendered /\ rendered # template

---------------------------------------------------------------------------
(* C2 *)

\* C2 as stated: whenever no context value contains a brace character, the
\* rendered string contains no placeholder.
C2_AsStated == (Done /\ ValuesBraceFree) => ~HasPlaceholder(rendered)

\* C2 (amended): whenever every brace of the template belongs to a token and
\* no context value contains a brace character, the rendered string contains
\* no placeholder, whether the context covers the tokens or not.
C2_NoRawToken ==
    (Done /\ NoStrayBrace(template) /\ ValuesBraceFree)
        => ~HasPlaceholder(rendered)

C2_Witness ==
    /\ pc = "rendered"
    /\ NoStrayBrace(template) /\ ValuesBraceFree
    /\ HasLiteral(template, NameX) /\ HasLiteral(template, NameY)
    /\ NameX \in DOMAIN variables /\ NameY \notin DOMAIN variables
    /\ ~HasPlaceholder(rendered)

---------------------------------------------------------------------------
(* C3 *)

\* the value of every token the context covers stands where the token
\* stood: behind the rendered text before the token, before the rendered
\* text after it
CoveredTokensHoldValue ==
    \A sp \in PlaceholderSpans(template) :
        SpanName(template, sp) \in DOMAIN variables =>
            rendered = applyVariables(Before(template, sp[1]), variables)
                        \o variables[SpanName(template, sp)]
                        \o applyVariables(After(template, sp[2]), variables)

NoResolvedLiteralLeft ==
    \A sp \in PlaceholderSpans(template) :
        SpanName(template, sp) \in DOMAIN variables =>
            ~HasLiteral(rendered, SpanName(template, sp))

\* C3 as stated: the value of every token the context covers stands at the
\* position of the token, and the rendered string contains no {name} for
\* any name that was resolved.
C3_AsStated == Done => (CoveredTokensHoldValue /\ NoResolvedLiteralLeft)

\* C3 (amended): the value of every token the context covers stands at the
\* position of the token; and when every brace of the template belongs to a
\* token and no context value contains a brace character, the rendered
\* string contains no {name} for any name that was resolved.
C3_FullCoverage ==
    Done => /\ CoveredTokensHoldValue
            /\ (NoStrayBrace(template) /\ ValuesBraceFree)
                    => NoResolvedLiteralLeft

C3_Witness ==
    /\ pc = "rendered"
    /\ template = Token(NameX) \o <<"-">> \o Token(NameY)
    /\ DOMAIN variables = {NameX, NameY}
    /\ variables[NameX] = <<"V">> /\ variables[NameY] = <<"V">>
    /\ rendered = <<"V", "-", "V">>

---------------------------------------------------------------------------
(* C4 *)

\* C4: a token whose name is not a key of the context is replaced by the
\* empty string, the rest of the template being rendered as it is without
\* the token.
C4_MissingTokenRemoved ==
    Done =>
        \A sp \in PlaceholderSpans(template) :
            SpanName(template, sp) \notin DOMAIN variables =>
                rendered = applyVariables(Before(template, sp[1]), variables)
                            \o applyVariables(After(template, sp[2]), variables)

---------------------------------------------------------------------------
(* C5 *)

\* C5: a template that contains no placeholder, the empty template
\* included, is rendered unchanged, whatever the context.
C5_LiteralPassthrough == (Done /\ ~HasPlaceholder(template)) => rendered = template

C5_Witness ==
    /\ pc = "rendered"
    /\ ~HasPlaceholder(template) /\ HasBrace(template) /\ Len(template) >= 3
    /\ DOMAIN variables = {NameX, NameY}
    /\ rendered = template

---------------------------------------------------------------------------
(* C6 *)

\* what position k of the template contributes in one pass over the
\* template: the replacement at the opening brace of a token, nothing at
\* the other positions of a token, the character itself elsewhere
Contribution(spans, k) ==
    IF \E sp \in spans : sp[1] = k
    THEN LET sp == CHOOSE q \in spans : q[1] = k
         IN  Replacement(variables, SpanName(template, sp))
    ELSE IF Covers(spans, k) THEN <<>>
    ELSE <<template[k]>>

\* C6: the rendered string is the concatenation, from left to right, of what
\* each position of the original template contributes; a value that holds a
\* placeholder is inserted as it is, also when the name in it is a key.
C6_SinglePass ==
    Done =>
        LET spans == PlaceholderSpans(template)
        IN  rendered =
                Flatten([k \in 1..Len(template) |-> Contribution(spans, k)])

C6_Witness ==
    /\ pc = "rendered"
    /\ template = Token(NameX) \o Token(NameY)
    /\ DOMAIN variables = {NameX, NameY}
    /\ variables[NameX] = Token(NameY) /\ variables[NameY] = <<"V">>
    /\ rendered = Token(NameY) \o <<"V">>

---------------------------------------------------------------------------
(* C7 *)

Occurrences(name) ==
    {sp \in PlaceholderSpans(template) : SpanName(template, sp) = name}

\* C7: when a name the context covers occurs in several tokens of the
\* template, the value stands at the place of every one of them.
C7_Multiplicity ==
    Done =>
        \A name \in DOMAIN variables :
            Cardinality(Occurrences(name)) >= 2 =>
                \A sp \in Occurrences(name) :
                    LET at == Len(applyVariables(Before(template, sp[1]), variables))
                        v == variables[name]
                    IN  /\ Len(rendered) >= at + Len(v)
                        /\ SubSeq(rendered, at + 1, at + Len(v)) = v
                        /\ Len(rendered) = at + Len(v) +
                             Len(applyVariables(After(template, sp[2]), variables))

C7_Witness ==
    /\ pc = "rendered"
    /\ template = Token(NameX) \o Token(NameX)
    /\ NameX \in DOMAIN variables /\ variables[NameX] = <<"V">>
    /\ rendered = <<"V", "V">>

C7_WitnessSeparated ==
    /\ pc = "rendered"
    /\ template = Token(NameX) \o <<"-">> \o Token(NameX)
    /\ NameX \in DOMAIN variables /\ variables[NameX] = <<"V">>
    /\ rendered = <<"V", "-", "V">>

---------------------------------------------------------------------------
(* C8 *)

\* C8: every character of the template outside the tokens, the braces of a
\* malformed brace sequence among them, stands in the rendered string as
\* written, behind the rendered text before it.
C8_MalformedIsLiteral ==
    Done =>
        \A k \in 1..Len(template) :
            ~Covers(PlaceholderSpans(template), k) =>
                LET at == Len(applyVariables(Before(template, k), variables))
                IN  /\ Len(rendered) >= at + 1
                    /\ rendered[at + 1] = template[k]
                    /\ Len(rendered) = at + 1 +
                         Len(applyVariables(After(template, k), variables))

C8_Witness ==
    /\ pc = "rendered"
    /\ template = Token(<<"x", "-", "y">>) \o Token(NameX) \o <<"{">>
    /\ DOMAIN variables = {NameX, NameY}
    /\ variables[NameX] = <<"V">>
    /\ rendered = Token(<<"x", "-", "y">>) \o <<"V", "{">>

C8_WitnessEmptyPair ==
    /\ pc = "rendered"
    /\ template = <<"{", "}">> \o Token(NameX)
    /\ NameX \in DOMAIN variables /\ variables[NameX] = <<"V">>
    /\ rendered = <<"{", "}", "V">>

---------------------------------------------------------------------------
(* C9 *)

\* the payload holds a string for the pair
Specified(channel, type) ==
    /\ incoming.present
    /\ channel \in DOMAIN incoming.map
    /\ type \in DOMAIN incoming.map[channel]

Holds(set, channel, type, text) ==
    /\ channel \in DOMAIN set
    /\ type \in DOMAIN set[channel]
    /\ set[channel][type] = text

\* C9: every pair the payload does not specify (the payload or the channel
\* may be absent) holds the hardcoded default in the merged set.
C9_MergeKeepsDefaults ==
    mergePc = "merged" =>
        \A channel \in ReminderChannel : \A type \in TemplateType :
            ~Specified(channel, type) =>
                Holds(merged, channel, type, defaultTemplates[channel][type])

C9_Witness ==
    /\ mergePc = "merged"
    /\ incoming.present
    /\ DOMAIN incoming.map = {"whatsapp"}
    /\ DOMAIN incoming.map["whatsapp"] = {"reminder"}
    /\ incoming.map["whatsapp"]["reminder"] = OverrideTexts[1]
    /\ merged # defaultTemplates
    /\ merged["whatsapp"]["reactivation"] = DefaultWhatsappReactivation
    /\ merged["sms"] = defaultTemplates["sms"]

C9_WitnessAbsentPayload ==
    /\ mergePc = "merged"
    /\ ~incoming.present
    /\ merged = defaultTemplates

---------------------------------------------------------------------------
(* C10 *)

\* C10 as stated: every pair the payload specifies holds the payload's
\* string in the merged set.
C10_AsStated ==
    mergePc = "merged" =>
        \A channel \in ReminderChannel : \A type \in TemplateType :
            Specified(channel, type) =>
                Holds(merged, channel, type, incoming.map[channel][type])

\* C10 (amended): every pair for which the payload specifies a non-empty
\* string holds the payload's string in the merged set.
C10_MergeKeepsOverrides ==
    mergePc = "merged" =>
        \A channel \in ReminderChannel : \A type \in TemplateType :
            (Specified(channel, type) /\ incoming.map[channel][type] # <<>>) =>
                Holds(merged, channel, type, incoming.map[channel][type])

C10_Witness ==
    /\ mergePc = "merged"
    /\ Specified("sms", "reminder")
    /\ incoming.map["sms"]["reminder"] = OverrideTexts[1]
    /\ Specified("email", "waitlist_call")
    /\ incoming.map["email"]["waitlist_call"] = <<>>
    /\ merged["sms"]["reminder"] = OverrideTexts[1]
    /\ merged["sms"]["reminder"] # DefaultSmsReminder

---------------------------------------------------------------------------
(* C11 *)

\* C11: each of the nine (channel, type) pairs has a non-empty default, and
\* the set returned by mergeTemplates holds a non-empty string for each of
\* the nine pairs, whatever the payload.
C11_NinePairsNonEmpty ==
    /\ \A channel \in ReminderChannel : \A type \in TemplateType :
            defaultTemplates[channel][type] # <<>>
    /\ mergePc = "merged" =>
            \A channel \in ReminderChannel : \A type \in TemplateType :
                /\ channel \in DOMAIN merged
                /\ type \in DOMAIN merged[channel]
                /\ merged[channel][type] # <<>>

C11_Witness ==
    /\ mergePc = "merged"
    /\ Specified("whatsapp", "reminder")
    /\ incoming.map["whatsapp"]["reminder"] = <<>>
    /\ Specified("email", "reactivation")
    /\ incoming.map["email"]["reactivation"] = OverrideTexts[1]
    /\ merged["whatsapp"]["reminder"] = DefaultWhatsappReminder
    /\ merged["email"]["reactivation"] = OverrideTexts[1]

---------------------------------------------------------------------------
(* C13 *)

\* what position k of the template contributes when only the keys that the
\* context supplies count: the supplied value at the opening brace of a token
\* whose name is supplied, nothing for any other token
SuppliedContribution(spans, k) ==
    IF \E sp \in spans : sp[1] = k
    THEN LET sp == CHOOSE q \in spans : q[1] = k
             name == SpanName(template, sp)
         IN  IF name \in DOMAIN variables THEN variables[name] ELSE <<>>
    ELSE IF Covers(spans, k) THEN <<>>
    ELSE <<template[k]>>

\* C13: a token whose name is not a key supplied in the context contributes
\* the empty string, whatever the identifier, also one that every object
\* inherits (constructor, toString, valueOf, hasOwnProperty).
C13_UnsuppliedTokenIsEmpty ==
    Done =>
        LET spans == PlaceholderSpans(template)
        IN  rendered =
                Flatten([k \in 1..Len(template) |->
                            SuppliedContribution(spans, k)])

---------------------------------------------------------------------------
(* C12 *)

\* the requests a step issues
NewRequests == DOMAIN requests' \ DOMAIN requests

IsTemplatesPut(request) ==
    request.method = "PUT" /\ request.path = <<"templates">>

\* a template set that holds a string for each of the nine pairs
HoldsNinePairs(set) ==
    /\ DOMAIN set = ReminderChannel
    /\ \A channel \in ReminderChannel : DOMAIN set[channel] = TemplateType

\* C12: a step that starts a save of templates issues exactly one request,
\* a PUT of templates, and the body of every PUT of templates a step issues
\* carries all nine (channel, type) pairs and equals the working set of the
\* state in which the save was triggered.
C12_SaveSendsWholeSet ==
    [][/\ (~isSavingTemplate /\ isSavingTemplate') =>
                \E n \in NewRequests :
                    NewRequests = {n} /\ IsTemplatesPut(requests'[n])
       /\ \A n \in NewRequests :
            IsTemplatesPut(requests'[n]) =>
                /\ requests'[n].body = [templates |-> templates]
                /\ HoldsNinePairs(requests'[n].body.templates)]_vars

\* a save in flight whose body holds an override and a default
C12_Witness ==
    \E n \in DOMAIN requests :
        /\ IsTemplatesPut(requests[n])
        /\ requests[n].body.templates["whatsapp"]["reminder"] = OverrideTexts[1]
        /\ requests[n].body.templates["sms"]["reminder"] = DefaultSmsReminder
        /\ templates = requests[n].body.templates

---------------------------------------------------------------------------
(* C14 *)

\* the step in which loadData goes on behind its await
LoadEnds == loadPc = "pending" /\ loadPc' = "done"

\* a GET of the initial load has rejected or was answered with a non-OK status
LoadFailed == \E g \in GetNames : gets[g] \in {"notok", "rejected"}

\* C14: when the initial load has failed, because a GET rejected or was
\* answered with a non-OK status, the page ends the load with the sample
\* appointments, reactivation patients and waitlist, the default templates,
\* isLoading false and the error notice set.
C14_FailedLoadFallsBack ==
    [][(LoadEnds /\ pagePc = "mounted" /\ LoadFailed) =>
            /\ appointments' = sampleAppointments
            /\ reactivationPatients' = sampleReactivation
            /\ waitlist' = sampleWaitlist
            /\ templates' = defaultTemplates
            /\ isLoading' = FALSE
            /\ errorMessage' # Null]_vars

---------------------------------------------------------------------------
(* C15 *)

\* the requests whose handler goes on behind its await in a step
EndedRequests == DOMAIN requests \ DOMAIN requests'

\* C15: when the handler of a save of templates goes on after a failed
\* request on a mounted page, errorMessage becomes the message of the
\* backend's error payload if the non-OK response has one, the generic
\* 'Falha ao salvar templates.' if it has none, and some message if the
\* request rejected; the success notice is left as it was.
C15_FailedSaveSurfacesMessage ==
    [][\A n \in EndedRequests :
        (/\ requests[n].handler = "saveTemplates"
         /\ requests[n].status # "ok"
         /\ pagePc = "mounted") =>
            /\ requests[n].status = "notok_message" =>
                    errorMessage' = Text(BackendMessage[<<"templates">>])
            /\ requests[n].status = "notok_plain" =>
                    errorMessage' = Text(<<"F", "a", "l", "h", "a", " ", "a", "o", " ", "s", "a", "l", "v", "a", "r", " ", "t", "e", "m", "p", "l", "a", "t", "e", "s", ".">>)
            /\ requests[n].status = "rejected" =>
                    errorMessage' # Null /\ errorMessage'.text # <<>>
            /\ successMessage' = successMessage]_vars

\* a save of templates has failed with a message of the backend
C15_Witness ==
    /\ pagePc = "mounted"
    /\ sentCount = 1
    /\ Pending("saveTemplates") = {}
    /\ ~isSavingTemplate
    /\ errorMessage = Text(BackendMessage[<<"templates">>])
    /\ successMessage = Null

---------------------------------------------------------------------------
(* C16 *)

\* C16: on a mounted page the saving flag of templates (of settings) is true
\* exactly while a save of templates (of settings) is under way: it is true
\* from the trigger on, and false again as soon as the handler has gone on
\* behind the settled request, with success or with failure, so that the
\* save button is enabled again.
C16_SavingFlagFollowsRequest ==
    pagePc = "mounted" =>
        /\ isSavingTemplate <=> Pending("saveTemplates") # {}
        /\ isSavingSettings <=> Pending("saveSettings") # {}

\* a save of templates has failed, and the flag is false again
C16_Witness ==
    /\ pagePc = "mounted"
    /\ sentCount = 1
    /\ requests = <<>>
    /\ errorMessage = Text(<<"F", "a", "l", "h", "a", " ", "a", "o", " ", "s", "a", "l", "v", "a", "r", " ", "t", "e", "m", "p", "l", "a", "t", "e", "s", ".">>)
    /\ ~isSavingTemplate

---------------------------------------------------------------------------
(* C17 *)

OptimisticHandlers ==
    {"confirmAppointment", "cancelAppointment", "reactivatePatient",
     "fillGapWithWaitlist"}

HasStatus(list, id, status) ==
    \E n \in 1..Len(list) : list[n].id = id /\ list[n].status = status

HasId(list, id) == \E n \in 1..Len(list) : list[n].id = id

\* the local change of the handler of a request, between the lists before
\* and the lists behind the step that issues the request
LocalChangeMade(request) ==
    LET id == request.about.id
    IN  CASE request.handler = "confirmAppointment" ->
                /\ Len(appointments') = Len(appointments)
                /\ HasStatus(appointments', id, "confirmed")
          [] request.handler = "cancelAppointment" ->
                /\ Len(appointments') = Len(appointments)
                /\ HasStatus(appointments', id, "canceled")
          [] request.handler = "reactivatePatient" ->
                /\ HasId(reactivationPatients, id)
                /\ ~HasId(reactivationPatients', id)
                /\ Len(reactivationPatients') = Len(reactivationPatients) - 1
          [] request.handler = "fillGapWithWaitlist" ->
                /\ HasId(waitlist, id)
                /\ ~HasId(waitlist', id)
                /\ Len(appointments') = Len(appointments) + 1
                /\ appointments'[1].patientName = request.about.patientName
                /\ SubSeq(appointments', 2, Len(appointments')) = appointments
          [] OTHER -> TRUE

\* C17: confirmAppointment, cancelAppointment, reactivatePatient and
\* fillGapWithWaitlist make their local change in the step that issues the
\* request, while the request is still pending, and the step in which the
\* handler goes on behind the settled request leaves the three lists as they
\* are, whether the request succeeded or failed.
C17_OptimisticUpdate ==
    [][/\ \A n \in NewRequests :
            requests'[n].handler \in OptimisticHandlers =>
                /\ requests'[n].status = "pending"
                /\ LocalChangeMade(requests'[n])
       /\ \A n \in EndedRequests :
            requests[n].handler \in OptimisticHandlers =>
                UNCHANGED <<appointments, reactivationPatients, waitlist>>]_vars

\* a cancellation whose request was rejected: the appointment stays canceled
C17_Witness ==
    /\ pagePc = "mounted"
    /\ sentCount = 1
    /\ requests = <<>>
    /\ successMessage = Null
    /\ activityLogs = <<>>
    /\ \E n \in 1..Len(appointments) :
        /\ n <= Len(sampleAppointments)
        /\ appointments[n].id = sampleAppointments[n].id
        /\ appointments[n].status = "canceled"
        /\ sampleAppointments[n].status # "canceled"

---------------------------------------------------------------------------
(* C18 *)

\* the pairs in which two template sets differ
ChangedPairs(before, after) ==
    {pair \in ReminderChannel \X TemplateType :
        \/ pair[1] \notin DOMAIN before \/ pair[1] \notin DOMAIN after
        \/ pair[2] \notin DOMAIN before[pair[1]]
        \/ pair[2] \notin DOMAIN after[pair[1]]
        \/ before[pair[1]][pair[2]] # after[pair[1]][pair[2]]}

---------------------------------------------------------------------------
(* C19 *)

\* C19: a step that issues a PUT of templates is the start of a save: the
\* saving flag of templates goes from false to true in it, the request is
\* the one of saveTemplates, and the step is neither the end of the initial
\* load, nor an edit of the working set, nor a change of a selection, nor
\* the sending of a message.
C19_PutOnlyOnSave ==
    [][\A n \in NewRequests :
        IsTemplatesPut(requests'[n]) =>
            /\ ~isSavingTemplate /\ isSavingTemplate'
            /\ requests'[n].handler = "saveTemplates"
            /\ NewRequests = {n}
            /\ ~LoadEnds
            /\ templates' = templates
            /\ UNCHANGED <<selectedTemplateChannel, selectedTemplateType,
                           selectedAppointmentId, selectedReactivationId,
                           selectedWaitlistId>>]_vars

\* the one request of the behaviour was a save of templates, issued by the
\* one action of the operator, and it has succeeded
C19_Witness ==
    /\ sentCount = 1
    /\ actionsLeft = MaxActions - 1
    /\ requests = <<>>
    /\ successMessage = Text(<<"T", "e", "m", "p", "l", "a", "t", "e", "s", " ", "s", "a", "l", "v", "o", "s", " ", "c", "o", "m", " ", "s", "u", "c", "e", "s", "s", "o", ".">>)
    /\ ~isSavingTemplate

---------------------------------------------------------------------------
(* C20 *)

\* Promise.all has fulfilled: the three GETs have a response
AllFulfilled == \A g \in GetNames : gets[g] \in {"ok", "notok"}

\* every GET has settled: it has a response, or it has rejected
AllSettled == \A g \in GetNames : gets[g] \in {"ok", "notok", "rejected"}

SomeRejected == \E g \in GetNames : gets[g] = "rejected"

\* the state the end of the load may write to
LoadedState ==
    <<appointments, reactivationPatients, waitlist, templates, settings,
      selectedAppointmentId, selectedReactivationId, selectedWaitlistId,
      isLoading, errorMessage>>

\* C20 as stated: the result of the load is written at most once, in a step
\* before which all three GETs have settled, and not at all on an unmounted
\* page.
C20_AsStated ==
    [][/\ loadPc = "done" => loadPc' = "done"
       /\ loadWrites' # loadWrites =>
            /\ LoadEnds /\ pagePc = "mounted"
            /\ loadWrites = 0 /\ loadWrites' = 1
            /\ AllSettled
       /\ (LoadEnds /\ pagePc = "unmounted") =>
            UNCHANGED <<LoadedState, loadWrites>>]_vars

\* C20: the result of the load is written at most once, in a step before
\* which either all three GETs have fulfilled or one of them has rejected
\* (the others may still be pending then), and not at all on a page that
\* was unmounted before that step.
C20_LoadWritesOnce ==
    [][/\ loadPc = "done" => loadPc' = "done"
       /\ loadWrites' # loadWrites =>
            /\ LoadEnds /\ pagePc = "mounted"
            /\ loadWrites = 0 /\ loadWrites' = 1
            /\ AllFulfilled \/ SomeRejected
       /\ (LoadEnds /\ pagePc = "unmounted") =>
            UNCHANGED <<LoadedState, loadWrites>>]_vars

\* the load has ended on a rejection and has written the fallback once
C20_Witness ==
    /\ pagePc = "mounted"
    /\ loadPc = "done"
    /\ loadWrites = 1
    /\ errorMessage # Null
    /\ appointments = sampleAppointments
    /\ templates = defaultTemplates
    /\ ~isLoading

\* the load has ended on an unmounted page and has written nothing
C20_WitnessUnmounted ==
    /\ pagePc = "unmounted"
    /\ loadPc = "done"
    /\ loadWrites = 0
    /\ appointments = <<>>
    /\ isLoading

---------------------------------------------------------------------------
(* C21 *)

\* the context the claim asks for: the five keys of the appointment from its
\* own fields, the clinic name of the form, and the last visit the preview
\* supplies
OwnContext(appointment) ==
    [key \in {KeyPatientName, KeyDate, KeyTime, KeyProcedure,
              KeyProfessional, KeyClinicName, KeyLastVisit} |->
        CASE key = KeyPatientName -> appointment.patientName
          [] key = KeyDate -> formatDate(appointment.datetime)
          [] key = KeyTime -> formatTime(appointment.datetime)
          [] key = KeyProcedure -> appointment.procedure
          [] key = KeyProfessional -> appointment.professional
          [] key = KeyClinicName -> clinicName
          [] OTHER -> templateVariables[KeyLastVisit]]

\* C21: the message of every request sendReminder issues for an appointment
\* is the reminder template of the appointment's own channel, resolved with
\* patientName, date, time, procedure and professional taken from the
\* fields of that appointment, whichever entities are selected for preview;
\* the request names the appointment's channel and goes to its endpoint.
C21_ReminderUsesOwnAppointment ==
    [][\A n \in NewRequests :
        requests'[n].handler = "sendReminder" =>
            LET appointment == requests'[n].about
            IN  /\ \E k \in 1..Len(appointments) : appointments[k] = appointment
                /\ requests'[n].path =
                        <<"appointments", appointment.id, "reminder">>
                /\ requests'[n].body.channel = appointment.reminderChannel
                /\ requests'[n].body.message =
                        applyVariables(
                            templates[appointment.reminderChannel]["reminder"],
                            OwnContext(appointment))]_vars

\* a reminder in flight for an appointment other than the one selected for
\* preview, on another channel than the one of the selected appointment
C21_Witness ==
    \E n \in DOMAIN requests :
        /\ requests[n].handler = "sendReminder"
        /\ requests[n].about.id # selectedAppointmentId
        /\ \E k \in 1..Len(appointments) :
            /\ appointments[k].id = selectedAppointmentId
            /\ appointments[k].reminderChannel # requests[n].body.channel
            /\ appointments[k].patientName # requests[n].about.patientName

---------------------------------------------------------------------------
(* C22 *)

\* the context of a message that takes nothing from the appointment list
\* and nothing from the preview: the keys the handler sets, the clinic name,
\* and for every other key the value templateVariables has on a page with
\* empty lists
ContextWithoutPreview(own) ==
    [key \in {KeyPatientName, KeyDate, KeyTime, KeyProcedure,
              KeyProfessional, KeyClinicName, KeyLastVisit} |->
        IF key \in DOMAIN own THEN own[key]
        ELSE CASE key = KeyPatientName -> <<"P", "a", "c", "i", "e", "n", "t", "e">>
               [] key = KeyDate -> formatDate(NowIso)
               [] key = KeyTime -> <<"0", "9", ":", "0", "0">>
               [] key = KeyProcedure -> <<"A", "v", "a", "l", "i", "a", "ç", "ã", "o", " ", "c", "l", "í", "n", "i", "c", "a">>
               [] key = KeyProfessional -> <<"E", "q", "u", "i", "p", "e", " ", "c", "l", "í", "n", "i", "c", "a">>
               [] key = KeyClinicName -> clinicName
               [] OTHER -> formatDate(NowIso)]

\* C22: the message reactivatePatient sends for a patient, and the message
\* fillGapWithWaitlist sends for a waitlist entry, is the one the same
\* whatsapp template, clinic name and patient (entry) give on a page whose
\* appointment list is empty and on which nothing is selected for preview:
\* it depends on nothing else, so no other patient's date, time, procedure
\* or professional is in it.
C22_MessageIndependentOfPreview ==
    [][\A n \in NewRequests :
        /\ requests'[n].handler = "reactivatePatient" =>
            requests'[n].body.message =
                applyVariables(templates["whatsapp"]["reactivation"],
                    ContextWithoutPreview(
                        (KeyPatientName :> requests'[n].about.patientName)
                        @@ (KeyLastVisit :>
                                formatDate(requests'[n].about.lastVisit))))
        /\ requests'[n].handler = "fillGapWithWaitlist" =>
            requests'[n].body.message =
                applyVariables(templates["whatsapp"]["waitlist_call"],
                    ContextWithoutPreview(
                        (KeyPatientName :> requests'[n].about.patientName)
                        @@ (KeyProcedure :> requests'[n].about.treatment)))]_vars

---------------------------------------------------------------------------
(* C23 *)

\* the working sets a load can give: the defaults, and the defaults with the
\* overrides of the backend
LoadableTemplates ==
    {defaultTemplates,
     [defaultTemplates EXCEPT
        !["whatsapp"] = [@ EXCEPT !["reminder"] = OverrideTexts[1],
                                  !["reactivation"] = BackendReactivationText]]}

\* C23: the step in which the initial load ends on a mounted page sets the
\* working set of templates to the merge of the defaults and the backend's
\* payload, or to the defaults on failure, whatever the operator has typed
\* while the load was pending: nothing of such an edit is left.
C23_LoadOverwritesEdits ==
    [][(LoadEnds /\ pagePc = "mounted") =>
            /\ templates' \in LoadableTemplates
            /\ SomeRejected => templates' = defaultTemplates]_vars

\* the three GETs have fulfilled and the load is about to go on, while the
\* working set holds a template the operator has emptied
C23_Witness ==
    /\ pagePc = "mounted"
    /\ loadPc = "pending"
    /\ AllFulfilled
    /\ templates["whatsapp"]["reminder"] = <<>>
    /\ templates \notin LoadableTemplates

---------------------------------------------------------------------------
(* C24 *)

\* C24: when sendReminder goes on behind its request on a mounted page and
\* the request has resolved, with an OK or a non-OK response, the success
\* notice names the patient and the channel, a 'Lembrete enviado' entry is
\* put at the head of the log and the error notice is left alone; when the
\* request has rejected, the error notice is set, and the log and the
\* success notice are left alone.
C24_ReminderNoticeFollowsPromise ==
    [][\A n \in EndedRequests :
        (requests[n].handler = "sendReminder" /\ pagePc = "mounted") =>
            IF requests[n].status # "rejected"
            THEN /\ successMessage' =
                        Text(<<"L", "e", "m", "b", "r", "e", "t", "e", " ", "e", "n", "v", "i", "a", "d", "o", " ", "p", "a", "r", "a", " ">>
                             \o requests[n].about.patientName \o <<" ", "v", "i", "a", " ">>
                             \o channelLabel[requests[n].about.reminderChannel]
                             \o <<".">>)
                 /\ errorMessage' = errorMessage
                 /\ Len(activityLogs') >= 1
                 /\ activityLogs'[1].action = <<"L", "e", "m", "b", "r", "e", "t", "e", " ", "e", "n", "v", "i", "a", "d", "o">>
                 /\ activityLogs'[1].target = requests[n].about.patientName
                 /\ SubSeq(activityLogs', 2, Len(activityLogs')) =
                        SubSeq(activityLogs, 1, Len(activityLogs') - 1)
            ELSE /\ errorMessage' =
                        Text(<<"F", "a", "l", "h", "a", " ", "a", "o", " ", "e", "n", "v", "i", "a", "r", " ", "l", "e", "m", "b", "r", "e", "t", "e", " ", "n", "o", " ", "m", "o", "m", "e", "n", "t", "o", ".">>)
                 /\ activityLogs' = activityLogs
                 /\ successMessage' = successMessage]_vars

\* a reminder whose request was answered with a non-OK status, the handler
\* about to go on
C24_Witness ==
    /\ pagePc = "mounted"
    /\ \E n \in Answered("sendReminder") :
        /\ requests[n].status = "notok_plain"
        /\ requests[n].about.reminderChannel = "sms"
    /\ successMessage = Null
    /\ activityLogs = <<>>

\* a reminder has been reported as sent
C24_WitnessLogged ==
    /\ pagePc = "mounted"
    /\ requests = <<>>
    /\ Len(activityLogs) = 1
    /\ activityLogs[1].action = <<"L", "e", "m", "b", "r", "e", "t", "e", " ", "e", "n", "v", "i", "a", "d", "o">>
    /\ successMessage # Null

---------------------------------------------------------------------------
(* C25 *)

\* C25: in every reachable state of the page at most one of successMessage
\* and errorMessage is not null.
C25_AtMostOneNotice == successMessage = Null \/ errorMessage = Null

---------------------------------------------------------------------------
(* C26 *)

\* C26: in every reachable state the ids of the appointment list are
\* pairwise distinct (the lists the load shows have distinct ids), also
\* after several calls of fillGapWithWaitlist in quick succession.
C26_AppointmentIdsDistinct ==
    \A i \in 1..Len(appointments) : \A j \in 1..Len(appointments) :
        i # j => appointments[i].id # appointments[j].id

---------------------------------------------------------------------------
(* C27 *)

\* the smaller of two numbers
Least(a, b) == IF a < b THEN a ELSE b

\* C27: the activity log never holds more than 8 entries and its entries
\* are ordered from the newest to the oldest; a step that changes the log
\* puts one new entry at its head, in front of the 7 most recent earlier
\* entries, and is the step in which a handler reports its request.
C27_LogHoldsEightNewestFirst ==
    [][/\ Len(activityLogs') <= 8
       /\ \A i \in 1..Len(activityLogs') : \A j \in 1..Len(activityLogs') :
            i < j => activityLogs'[i].id[2] >= activityLogs'[j].id[2]
       /\ activityLogs' # activityLogs =>
            /\ Len(activityLogs') = Least(Len(activityLogs) + 1, 8)
            /\ SubSeq(activityLogs', 2, Len(activityLogs')) =
                    SubSeq(activityLogs, 1, Len(activityLogs') - 1)
            /\ EndedRequests # {}]_vars

\* the ninth entry has pushed the oldest one out
C27_Witness ==
    /\ Len(activityLogs) = 8
    /\ actionsLeft = 0
    /\ requests = <<>>
    /\ sentCount = LogActions
    /\ \A i \in 1..8 : activityLogs[i].action = <<"L", "e", "m", "b", "r", "e", "t", "e", " ", "e", "n", "v", "i", "a", "d", "o">>
    /\ activityLogs[1].id[2] > activityLogs[8].id[2]

---------------------------------------------------------------------------
(* C28 *)

\* the token a reader finds: localStorage first, then sessionStorage
TokenRead(local, session) ==
    IF ~local[AUTH_TOKEN_KEY].isNull /\ local[AUTH_TOKEN_KEY].text # <<>>
    THEN local[AUTH_TOKEN_KEY]
    ELSE session[AUTH_TOKEN_KEY]

\* the form reports a successful login in this step
LoginReported ==
    /\ navigateTimers' = navigateTimers + 1
    /\ formSuccess' = Text(<<"L", "o", "g", "i", "n", " ", "r", "e", "a", "l", "i", "z", "a", "d", "o", " ", "c", "o", "m", " ", "s", "u", "c", "e", "s", "s", "o", ".">>)

\* C28: in every step in which the sign-in form reports a successful login
\* (success message set, navigation to / scheduled), the token read from
\* the storages afterwards is the non-empty token the backend issued for
\* this login, whatever the checkbox says and whatever the storages held.
C28_LoginStoresItsToken ==
    [][LoginReported =>
            TokenRead(localStorage', sessionStorage') = Text(IssuedToken)]_vars

---------------------------------------------------------------------------
(* C29 *)

\* neither storage holds a token
NoToken ==
    /\ TokenRead(localStorage, sessionStorage).isNull
       \/ TokenRead(localStorage, sessionStorage).text = <<>>

\* a focus event or a storage event is delivered in this step
WindowEvent == (~focused /\ focused') \/ (storageEvent /\ ~storageEvent')

\* C29: the route shows the protected content exactly while isAuthenticated
\* is true; it leaves the content only by a redirect to /signin, made in a
\* step that starts with no token in either storage and sets
\* isAuthenticated to false; a focus or storage event delivered to the
\* mounted route redirects if there is no token and keeps the content if
\* there is one; and once no token is left under a mounted route, the timer
\* leads to the redirect unless a token is stored again.
C29_RouteFollowsToken ==
    /\ [][/\ routePc' = "mounted" => isAuthenticated'
          /\ routePc' = "redirected" =>
                ~isAuthenticated' /\ location' = SignInPath
          /\ routePc = "mounted" /\ routePc' # "mounted" =>
                NoToken /\ routePc' = "redirected"
          /\ routePc # "mounted" /\ routePc' = "mounted" => ~NoToken
          /\ routePc = "mounted" /\ WindowEvent =>
                routePc' = (IF NoToken THEN "redirected" ELSE "mounted")]_vars
    /\ (routePc = "mounted" /\ NoToken) ~> (routePc = "redirected" \/ ~NoToken)

\* the token was removed from both storages under the mounted route; the
\* content is still shown
C29_Witness ==
    /\ routePc = "mounted"
    /\ isAuthenticated
    /\ localStorage = Cleared
    /\ sessionStorage = Cleared

---------------------------------------------------------------------------
(* C30 *)

\* the answers after which the next endpoint is tried: a network error, a
\* 404, a 405 and the 5xx responses
TriesNext(answer) ==
    answer.rejected \/ answer.status \in {404, 405} \/ answer.status >= 500

====
